---- MODULE Spec2Model ----
(***************************************************************************)
(* Model of the history store of calcu_perimetro (src/utils_json.py): the  *)
(* JSON array file, the process-wide CacheJSON entry, the loader and the   *)
(* three writers, and limpiar_historial.                                   *)
(*                                                                         *)
(* A file is a sequence of characters.  Structural characters and white    *)
(* space are modelled one by one; the key/value text of one record is one  *)
(* symbol (its name), so that json.dump, json.load and the backward scan   *)
(* of guardar_json_append work on text exactly as the code does.           *)
(***************************************************************************)
EXTENDS Integers, Sequences, FiniteSets, TLC

\* ------------------------------------------------------------------ bounds
\* Records a file may gain beyond the empty and the near-threshold histories.
MaxLen == 2
\* Largest clock value.
MaxTime == 60
\* Seconds the clock advances in one Tick.
TickStep == 30
\* Longest History handed to the statistics and to the search.
MaxHist == 3
\* Distinct keys beyond the maxsize that fill a memo.
MaxNuevas == 2
\* Calls of a memoised function beyond those that filled its memo.
MaxLlamadas == 4
\* Longest side of a triangle.
MaxLado == 4

\* ------------------------------------------------------- program constants
\* cache_duration of CacheJSON, in seconds.
cache_duration == 60
\* A history longer than this is written in the compact format.
UmbralCompacto == 100
\* None, for the two float fields of CacheJSON and for an absent file's mtime.
NoneT == -1

ARCHIVO_JSON == "perimetros.json"
OTRA_RUTA == "otro.json"
Rutas == {ARCHIVO_JSON, OTRA_RUTA}

\* The records (dato) the callers store; the name stands for the record's
\* key/value text.
Datos == {"r1", "r2"}

\* ------------------------------------------------------------ Python values
\* A value json.load can return, or None.  items: the elements of a list, the
\* body of a dict, the digits of a number.
PyVal(k, its) == [kind |-> k, items |-> its]
None == PyVal("None", <<>>)
PyList(its) == PyVal("list", its)
EmptyList == PyList(<<>>)

\* Python truthiness: None, [], {} and 0 are false.
Truthy(v) ==
    CASE v.kind = "None" -> FALSE
      [] v.kind = "num" -> v.items # <<"0">>
      [] OTHER -> v.items # <<>>

\* list and dict have .copy(); int, str and None do not (AttributeError).
HasCopy(v) == v.kind \in {"list", "dict"}

\* `default or []`
DefaultOr(default) == IF Truthy(default) THEN default ELSE EmptyList

\* ------------------------------------------------------------------- text
SP == " "
NL == "\n"
Indent4 == <<SP, SP, SP, SP>>
IsSpace(c) == c \in {SP, NL}

RECURSIVE IndentRest(_)
\* The text after the first line's indentation: four spaces after every
\* newline (no line of a dumped record is blank).
IndentRest(s) ==
    IF s = <<>> THEN <<>>
    ELSE IF Head(s) = NL THEN <<NL>> \o Indent4 \o IndentRest(Tail(s))
    ELSE <<Head(s)>> \o IndentRest(Tail(s))

\* '\n'.join('    ' + line if line.strip() else line for line in lines)
IndentLines(s) == Indent4 \o IndentRest(s)

\* json.dumps(dato, indent=4) of one record.
DumpsIndent(d) == <<"{", NL>> \o Indent4 \o <<d, NL, "}">>

\* json.dumps(dato, separators=(',', ':')) of one record.
DumpsCompact(d) == <<"{", d, "}">>

\* sep.join(bloques), for blocks of one length (every record's text has the
\* same layout); written by position, without recursion, for long histories.
Join(bloques, sep) ==
    IF bloques = <<>> THEN <<>>
    ELSE LET n == Len(bloques)
             L == Len(bloques[1])
             S == Len(sep)
         IN  [i \in 1..(n * L + (n - 1) * S) |->
                LET j == ((i - 1) \div (L + S)) + 1
                    k == ((i - 1) % (L + S)) + 1
                IN  IF k <= L THEN bloques[j][k] ELSE sep[k - L]]

\* The elements of an array at indent=4 with separators (', ', ': '): each on
\* its own lines, indented, a comma and a space after all but the last.
DumpItemsIndent(its) ==
    Join([j \in 1..Len(its) |-> IndentLines(DumpsIndent(its[j]))], <<",", SP, NL>>)

DumpItemsCompact(its) ==
    Join([j \in 1..Len(its) |-> DumpsCompact(its[j])], <<",">>)

\* json.dump(lista, f, indent=4): an empty list is written as [].
DumpIndent(its) ==
    IF its = <<>> THEN <<"[", "]">>
    ELSE <<"[", NL>> \o DumpItemsIndent(its) \o <<NL, "]">>

\* json.dump(lista, f, indent=None, separators=(',', ':'))
DumpCompact(its) == <<"[">> \o DumpItemsCompact(its) \o <<"]">>

\* The compact format chosen from UmbralCompacto records on.
UsaCompactoDesde(its) == Len(its) >= UmbralCompacto
\* The format guardar_json and guardar_json_batch choose.
UsaCompacto(its) == Len(its) > UmbralCompacto
DumpLista(its) == IF UsaCompacto(its) THEN DumpCompact(its) ELSE DumpIndent(its)

\* The text of a record json cannot encode, as far as json.dump writes it
\* before it raises TypeError: the opening of the object and its first keys.
Trunco == "r?"

\* What json.dump(lista + [dato], f) has written when dato cannot be encoded:
\* the encoder streams its output, so everything before the value it fails on
\* is in the file.
DumpParcial(its) ==
    LET todo == DumpLista(Append(its, Trunco))
        pos == CHOOSE i \in 1..Len(todo) : todo[i] = Trunco
    IN  SubSeq(todo, 1, pos)

\* ------------------------------------------------------------ json.load
NoEspacio(c) == ~IsSpace(c)
Tokens(text) == SelectSeq(text, NoEspacio)

\* The tokens between the brackets of an array: objects {d} separated by commas.
EsListaDeObjetos(inner) ==
    \/ inner = <<>>
    \/ /\ Len(inner) % 4 = 3
       /\ \A i \in 1..Len(inner) :
            CASE i % 4 = 1 -> inner[i] = "{"
              [] i % 4 = 2 -> inner[i] \in Datos
              [] i % 4 = 3 -> inner[i] = "}"
              [] OTHER -> inner[i] = ","

ItemsDe(inner) == [j \in 1..((Len(inner) + 1) \div 4) |-> inner[4 * (j - 1) + 2]]

JSONDecodeError == PyVal("JSONDecodeError", <<>>)

\* json.load(f): the value of the whole text, or JSONDecodeError (no value,
\* a malformed value, or extra data after the value).
JsonLoad(text) ==
    LET t == Tokens(text)
        n == Len(t)
    IN  IF n = 0 THEN JSONDecodeError
        ELSE IF t = <<"null">> THEN PyVal("null", <<>>)
        ELSE IF n = 1 /\ t[1] \in {"0", "5"} THEN PyVal("num", t)
        ELSE IF t = <<"{", "}">> THEN PyVal("dict", <<>>)
        ELSE IF n = 3 /\ t[1] = "{" /\ t[2] \in Datos /\ t[3] = "}"
             THEN PyVal("dict", <<t[2]>>)
        ELSE IF n >= 2 /\ t[1] = "[" /\ t[n] = "]"
                /\ EsListaDeObjetos(SubSeq(t, 2, n - 1))
             THEN PyList(ItemsDe(SubSeq(t, 2, n - 1)))
        ELSE JSONDecodeError

\* ------------------------------------------------------------------ state
VARIABLES
    files,   \* ruta -> [exists, content, mtime]: the file system
    cache,   \* _cache_global: [cache, timestamp, file_mtime]
    now,     \* datetime.now().timestamp(), also the clock of st_mtime
    last,    \* the last store operation: its arguments and what it returned
    origen,  \* ruta -> "store" when the store wrote all of the file's text
    held,    \* the list a caller keeps from a load: its records, and for each
             \* the index of the cache entry's element that is the same object
    hilos,   \* thread -> where it is in its call (pc), the value it loaded
             \* (datos), the file's st_mtime when it read it (mt), and for
             \* a writer the text it is about to write (buf) at offset pos
    lock,    \* CacheJSON._lock: 0 when free, else the thread that holds it
    captura, \* the file's st_mtime when the snapshot in the entry was read
    entrada, \* the History handed to the statistics and to the search
    res,     \* what the last statistics or search call reported
    memoStats,  \* the lru_cache of calcular_estadisticas_cached: its keys,
                \* least recently used first
    memoFigura, \* the lru_cache of obtener_figura_mas_frecuente_cached
    uso,     \* key -> the call that last used it in memoFigura (0: never)
    llamadas, \* calls of obtener_figura_mas_frecuente_cached so far
    calc,    \* the last call of calcular_perimetro and what came of it
    menu     \* the menu loop: running or ended (pc), the option of its last
             \* iteration, the answer to the confirmation, and the exception
             \* that iteration met

vars == <<files, cache, now, last, origen, held, hilos, lock, captura,
          entrada, res, memoStats, memoFigura, uso, llamadas, calc, menu>>

\* The state of the threads, and what only the sequential operations use.
hilosVars == <<hilos, lock, captura>>
secVars == <<last, origen, held>>
\* The state of the statistics and of the search.
estVars == <<entrada, res, memoStats, memoFigura, uso, llamadas, calc, menu>>

Hilos == {1, 2}
Reposo == [pc |-> "idle", datos |-> None, mt |-> NoneT, pos |-> 0, buf |-> <<>>]

Ausente == [exists |-> FALSE, content |-> <<>>, mtime |-> NoneT]
Archivo(text, t) == [exists |-> TRUE, content |-> text, mtime |-> t]

\* ---------------------------------------------------------------- CacheJSON
\* CacheJSON.__init__, and the entry CacheJSON.invalidar leaves.
CacheVacio == [cache |-> None, timestamp |-> NoneT, file_mtime |-> NoneT]

\* invalidar that drops the snapshot and keeps the two stamps.
invalidarSoloDatos(c) == [c EXCEPT !.cache = None]

invalidar(c) == CacheVacio

is_valid(c, f, t) ==
    IF c.cache = None \/ c.timestamp = NoneT THEN FALSE
    ELSE IF f.exists /\ c.file_mtime # f.mtime THEN FALSE
    ELSE t - c.timestamp < cache_duration

\* CacheJSON.get: `self._cache.copy() if self._cache else None`
get(c, f, t) ==
    IF is_valid(c, f, t)
    THEN (IF Truthy(c.cache) THEN c.cache ELSE None)
    ELSE None

\* CacheJSON.set raises AttributeError, before it assigns anything, when
\* datos is truthy and has no copy().
SetRaises(datos) == Truthy(datos) /\ ~HasCopy(datos)

\* CacheJSON.set: the modification time is recorded only when the file exists.
set(c, f, t, datos) ==
    [cache |-> IF Truthy(datos) THEN datos ELSE EmptyList,
     timestamp |-> t,
     file_mtime |-> IF f.exists THEN f.mtime ELSE c.file_mtime]

\* ---------------------------------------------------------------- cargar_json
\* The exceptions the two except clauses of cargar_json catch.
CargarCaptura(exc) == exc = "JSONDecodeError" \/ exc \in {"OSError", "AttributeError"}

\* The try block of cargar_json: open, json.load, _cache_global.set, return.
\* ioerr: opening or reading the file fails with an OSError.
CargarTry(c, f, t, usar_cache, ioerr) ==
    IF ioerr THEN [exc |-> "OSError", val |-> None, cache |-> c]
    ELSE LET datos == JsonLoad(f.content) IN
         IF datos = JSONDecodeError
         THEN [exc |-> "JSONDecodeError", val |-> None, cache |-> c]
         ELSE IF usar_cache /\ SetRaises(datos)
         THEN [exc |-> "AttributeError", val |-> None, cache |-> c]
         ELSE [exc |-> "none", val |-> datos,
               cache |-> IF usar_cache THEN set(c, f, t, datos) ELSE c]

\* cargar_json(ruta, default, usar_cache).  ret: the value returned; hit: it
\* came from the cache; leido: the file was opened; msg: an error was printed;
\* raised: an exception reached the caller.
cargar_json(c, f, t, default, usar_cache, ioerr) ==
    LET dc == IF usar_cache THEN get(c, f, t) ELSE None IN
    IF dc # None
    THEN [ret |-> dc, cache |-> c, hit |-> TRUE, leido |-> FALSE,
          msg |-> FALSE, raised |-> FALSE]
    ELSE IF f.exists
    THEN LET r == CargarTry(c, f, t, usar_cache, ioerr) IN
         IF r.exc = "none"
         THEN [ret |-> r.val, cache |-> r.cache, hit |-> FALSE, leido |-> TRUE,
               msg |-> FALSE, raised |-> FALSE]
         ELSE IF CargarCaptura(r.exc)
         THEN [ret |-> DefaultOr(default), cache |-> r.cache, hit |-> FALSE,
               leido |-> TRUE, msg |-> TRUE, raised |-> FALSE]
         ELSE [ret |-> None, cache |-> r.cache, hit |-> FALSE,
               leido |-> TRUE, msg |-> FALSE, raised |-> TRUE]
    ELSE [ret |-> DefaultOr(default), cache |-> c, hit |-> FALSE, leido |-> FALSE,
          msg |-> FALSE, raised |-> FALSE]

\* cargar_json under an I/O failure.  "read": open or read fails, inside the
\* try block.  "stat": ruta.exists() raises OSError (a path the process may
\* not search, a name too long); is_valid and `if ruta.exists():` are outside
\* the try block, so the exception leaves cargar_json.
CargarCon(c, f, t, default, usar_cache, io) ==
    IF io = "stat"
    THEN [ret |-> None, cache |-> c, hit |-> FALSE, leido |-> FALSE,
          msg |-> FALSE, raised |-> TRUE]
    ELSE cargar_json(c, f, t, default, usar_cache, io = "read")

\* A load that bypasses the cache and meets no I/O error: what is on disk.
EnDisco(f) == cargar_json(CacheVacio, f, 0, None, FALSE, FALSE).ret

\* ------------------------------------------------------------------ writers
\* The one except clause of each writer and of limpiar_historial
\* (`except Exception`).
EscrituraCaptura(exc) == exc \in {"OSError", "AttributeError"}

\* What a writer returns once its try block ended: True, or the except
\* clause's message and False, or the exception when nothing catches it.
Resultado(exc, f, c) ==
    [file |-> f, cache |-> c, ok |-> exc = "none",
     msg |-> exc # "none" /\ EscrituraCaptura(exc),
     raised |-> exc # "none" /\ ~EscrituraCaptura(exc)]

\* A writer whose json.dump raised after the file was opened for writing:
\* the file holds the partial text, the cache is as the load left it.
Parcial(text, t, c) ==
    [file |-> Archivo(text, t), cache |-> c, ok |-> FALSE, msg |-> TRUE,
     raised |-> FALSE]

\* guardar_json(dato, ruta, usar_cache).  io: "stat" fails ruta.exists(),
\* "read" fails the load's open, "write" fails ruta.open('w'), "dump": dato
\* cannot be encoded and json.dump raises TypeError.
guardar_json(c, f, t, dato, usar_cache, io) ==
    LET r == cargar_json(c, f, t, EmptyList, usar_cache, io = "read") IN
    IF io = "stat" THEN Resultado("OSError", f, c)
    ELSE IF r.ret.kind # "list" THEN Resultado("AttributeError", f, r.cache)
    ELSE IF io = "write" THEN Resultado("OSError", f, r.cache)
    ELSE IF io = "dump" THEN Parcial(DumpParcial(r.ret.items), t, r.cache)
    ELSE Resultado("none",
                   Archivo(DumpLista(Append(r.ret.items, dato)), t),
                   IF usar_cache THEN invalidar(r.cache) ELSE r.cache)

\* guardar_json_batch(datos, ruta)
guardar_json_batch(c, f, t, datos, io) ==
    LET r == cargar_json(c, f, t, EmptyList, TRUE, io = "read") IN
    IF io = "stat" THEN Resultado("OSError", f, c)
    ELSE IF r.ret.kind # "list" THEN Resultado("AttributeError", f, r.cache)
    ELSE IF io = "write" THEN Resultado("OSError", f, r.cache)
    ELSE IF io = "dump" THEN Parcial(DumpParcial(r.ret.items \o datos), t, r.cache)
    ELSE Resultado("none",
                   Archivo(DumpLista(r.ret.items \o datos), t),
                   invalidar(r.cache))

\* The backward scan of guardar_json_append: from the last character down to
\* position 1 (position 0 is never read), the position of the first ']' met,
\* or 0.  Positions count from 0, as f.tell() does.
PosCierre(text) ==
    LET donde == {p \in 1..(Len(text) - 1) : text[p + 1] = "]"}
    IN  IF donde = {} THEN 0 ELSE CHOOSE p \in donde : \A q \in donde : q <= p

\* AppendTexto with the separator forgotten: the record is written right
\* after the previous one.
AppendTextoSinComa(text, dato) ==
    LET pos == PosCierre(text)
        escrito == IndentLines(DumpsIndent(dato)) \o <<NL, "]">>
    IN  SubSeq(text, 1, pos) \o escrito \o SubSeq(text, pos + Len(escrito) + 1, Len(text))

\* The text guardar_json_append leaves in a file that is not empty: written
\* over the old text from the position of the ']' on; nothing is truncated.
AppendTexto(text, dato) ==
    LET pos == PosCierre(text)
        coma == IF pos > 1 /\ text[pos] # "[" THEN <<",", NL>> ELSE <<>>
        escrito == coma \o IndentLines(DumpsIndent(dato)) \o <<NL, "]">>
        fin == pos + Len(escrito)
    IN  SubSeq(text, 1, pos) \o escrito \o SubSeq(text, fin + 1, Len(text))

\* The text guardar_json_append leaves when json.dumps(dato) raises: the
\* separator, if one was due, is already written over the ']'.
AppendSoloComa(text) ==
    LET pos == PosCierre(text)
        coma == IF pos > 1 /\ text[pos] # "[" THEN <<",", NL>> ELSE <<>>
    IN  SubSeq(text, 1, pos) \o coma \o SubSeq(text, pos + Len(coma) + 1, Len(text))

\* guardar_json_append(dato, ruta).  io: "stat" fails ruta.exists(), "write"
\* fails the open, "dump": dato cannot be encoded (json.dump on a new file,
\* json.dumps after the separator on an old one; a file in which nothing was
\* written keeps its modification time).
guardar_json_append(c, f, t, dato, io) ==
    IF io \in {"write", "stat"} THEN Resultado("OSError", f, c)
    ELSE IF ~f.exists \/ Len(f.content) = 0
    THEN (IF io = "dump" THEN Parcial(DumpParcial(<<>>), t, c)
          ELSE Resultado("none", Archivo(DumpIndent(<<dato>>), t), invalidar(c)))
    ELSE IF io = "dump"
    THEN (IF AppendSoloComa(f.content) = f.content
          THEN [file |-> f, cache |-> c, ok |-> FALSE, msg |-> TRUE,
                raised |-> FALSE]
          ELSE Parcial(AppendSoloComa(f.content), t, c))
    ELSE Resultado("none", Archivo(AppendTexto(f.content, dato), t), invalidar(c))

\* limpiar_historial that deletes the file and leaves the cache alone.
limpiarSinInvalidar(c, f, io) ==
    IF f.exists
    THEN (IF io = "write" THEN Resultado("OSError", f, c)
          ELSE Resultado("none", Ausente, c))
    ELSE [file |-> f, cache |-> c, ok |-> FALSE, msg |-> FALSE, raised |-> FALSE]

\* limpiar_historial().  io: "stat" fails ARCHIVO_JSON.exists(), "write"
\* fails ARCHIVO_JSON.unlink().
limpiar_historial(c, f, io) ==
    IF io = "stat" THEN Resultado("OSError", f, c)
    ELSE IF f.exists
    THEN (IF io = "write" THEN Resultado("OSError", f, c)
          ELSE Resultado("none", Ausente, invalidar(c)))
    ELSE [file |-> f, cache |-> c, ok |-> FALSE, msg |-> FALSE, raised |-> FALSE]

\* ----------------------------------------------------------------- inputs
IOFallos == {"none", "read", "write"}
Lotes == {<<>>, <<"r1">>, <<"r2", "r1">>}

\* What the file may hold that the store did not write: nothing, text that is
\* not JSON, JSON whose root is no array, and arrays the store never writes.
ContenidosExternos ==
    { <<>>, <<"x">>, <<"{", "r1", "}">>, <<"null">>, <<"5">>,
      <<"[", SP, "]">>, <<"[">> }

\* The history of UmbralCompacto records that the next save turns compact.
HistoriaGrande == [i \in 1..UmbralCompacto |-> "r1"]

NumRegistros(text) == Cardinality({i \in 1..Len(text) : text[i] \in Datos})

\* The bound on a file's growth: at most MaxLen records, or at most MaxLen
\* more than the threshold.
Cabe(f) ==
    LET n == NumRegistros(f.content)
    IN  n <= MaxLen \/ (n >= UmbralCompacto /\ n <= UmbralCompacto + MaxLen)

\* The record of an operation: its name, path and usar_cache, what it
\* returned (for a load: that nothing was raised), and valido: the cache entry
\* was valid for the path when the operation began.
Op(nombre, ruta, usar_cache, ok, valido) ==
    [op |-> nombre, ruta |-> ruta, usar_cache |-> usar_cache,
     ok |-> ok, valido |-> valido]

Escrituras == {"guardar", "append", "batch", "limpiar"}

\* ------------------------------------------------- statistics and search
\* A string is the sequence of its characters.  str.lower() on a character.
LowerCh(ch) ==
    CASE ch = "A" -> "a" [] ch = "B" -> "b" [] ch = "S" -> "s" [] ch = "N" -> "n"
      [] OTHER -> ch
UpperCh(ch) == CASE ch = "a" -> "A" [] ch = "b" -> "B" [] OTHER -> ch
EsLetra(ch) == ch \in {"a", "b", "A", "B"}
EsBlanco(ch) == ch \in {SP, NL}

\* str.lower()
lower(s) == [i \in 1..Len(s) |-> LowerCh(s[i])]

\* str.strip(): white space is removed at both ends, never inside.
RECURSIVE lstrip(_)
lstrip(s) == IF s # <<>> /\ EsBlanco(Head(s)) THEN lstrip(Tail(s)) ELSE s
RECURSIVE rstrip(_)
rstrip(s) ==
    IF s # <<>> /\ EsBlanco(s[Len(s)]) THEN rstrip(SubSeq(s, 1, Len(s) - 1)) ELSE s
strip(s) == rstrip(lstrip(s))

\* .replace('_', ' ').title(): a letter that follows a letter is lower-cased,
\* any other letter is upper-cased.
title(s) ==
    LET r == [i \in 1..Len(s) |-> IF s[i] = "_" THEN SP ELSE s[i]] IN
    [i \in 1..Len(r) |-> IF i > 1 /\ EsLetra(r[i - 1]) THEN LowerCh(r[i])
                         ELSE UpperCh(r[i])]

\* The value of one field of a record: a string (s), a number (v), a boolean
\* (v is its value as an int: True is 1), or "falta" when the record has no
\* such key.
Str(s) == [tipo |-> "str", s |-> s, v |-> 0]
Num(n) == [tipo |-> "num", s |-> <<>>, v |-> n]
Bool(b) == [tipo |-> "bool", s |-> <<>>, v |-> IF b THEN 1 ELSE 0]
Falta == [tipo |-> "falta", s |-> <<>>, v |-> 0]

\* One entry of a History: a dict with (or without) figura and perimetro.
Reg(f, p) == [kind |-> "dict", figura |-> f, perimetro |-> p]

\* isinstance(x, (int, float)): bool is a subclass of int.
EsIntFloat(x) == x.tipo \in {"num", "bool"}

\* The literal 'ninguna'.
NINGUNA == Str(<<"ninguna">>)

RECURSIVE Suma(_)
Suma(ns) == IF ns = <<>> THEN 0 ELSE Head(ns) + Suma(Tail(ns))
Maximo(ns) == CHOOSE x \in {ns[i] : i \in 1..Len(ns)} : \A i \in 1..Len(ns) : ns[i] <= x
Minimo(ns) == CHOOSE x \in {ns[i] : i \in 1..Len(ns)} : \A i \in 1..Len(ns) : x <= ns[i]

\* A quotient a / b, kept as the pair; the literal 0 is 0 / 1.
Frac(a, b) == [num |-> a, den |-> b]

\* Counter(xs).most_common(1)[0][0]: the largest count, and of the values
\* that share it the one inserted first.
Veces(xs, x) == Cardinality({i \in 1..Len(xs) : xs[i] = x})
MasComun(xs) ==
    xs[CHOOSE i \in 1..Len(xs) :
           /\ \A j \in 1..Len(xs) : Veces(xs, xs[j]) <= Veces(xs, xs[i])
           /\ \A j \in 1..(i - 1) : Veces(xs, xs[j]) < Veces(xs, xs[i])]

\* [d.get('perimetro', 0) for d in datos if isinstance(d.get('perimetro'), (int, float))]
Perimetros(h) ==
    LET sel == SelectSeq(h, LAMBDA d : EsIntFloat(d.perimetro)) IN
    [i \in 1..Len(sel) |-> sel[i].perimetro.v]

\* The figura of the records that have one and a numeric perimetro as well.
FigurasNumericas(h) ==
    LET sel == SelectSeq(h, LAMBDA d : d.figura.tipo # "falta" /\ EsIntFloat(d.perimetro)) IN
    [i \in 1..Len(sel) |-> sel[i].figura]

\* [d.get('figura') for d in datos if 'figura' in d]
Figuras(h) ==
    LET sel == SelectSeq(h, LAMBDA d : d.figura.tipo # "falta") IN
    [i \in 1..Len(sel) |-> sel[i].figura]

Estadisticas(total, prom, mx, mn, fig) ==
    [total_calculos |-> total, perimetro_promedio |-> prom,
     perimetro_maximo |-> mx, perimetro_minimo |-> mn, figura_mas_calculada |-> fig]

calcular_estadisticas_sin_cache(h) ==
    LET perimetros == Perimetros(h)
        figuras == Figuras(h)
        hay == perimetros # <<>>
    IN Estadisticas(Len(h),
                    IF hay THEN Frac(Suma(perimetros), Len(perimetros)) ELSE Frac(0, 1),
                    IF hay THEN Maximo(perimetros) ELSE 0,
                    IF hay THEN Minimo(perimetros) ELSE 0,
                    IF figuras # <<>> THEN MasComun(figuras) ELSE NINGUNA)

\* tuple(dict_to_tuple(d) for d in datos): every dict becomes the tuple of its
\* sorted items.
datos_a_tuple(h) == [i \in 1..Len(h) |-> [h[i] EXCEPT !.kind = "tuple"]]

\* ------------------------------------------------------------- lru_cache
\* maxsize of both memos.
maxsize == 128

\* A memo is the sequence of its keys, the least recently used first; the
\* value kept for a key is what the function returns for it.
EnMemo(m, k) == \E i \in 1..Len(m) : m[i] = k
\* A hit makes the key the most recently used.
MemoUsa(m, k) == Append(SelectSeq(m, LAMBDA x : x # k), k)
\* A miss that stores the key and drops none.
MemoSinLimite(m, k) == Append(m, k)
\* A miss stores the key; a full memo first drops the least recently used.
MemoGuarda(m, k) == IF Len(m) >= maxsize THEN Append(Tail(m), k) ELSE Append(m, k)
\* A dict cannot be hashed, so it cannot be (part of) a key.
Hashable(k) == \A i \in 1..Len(k) : k[i].kind # "dict"

SinStats == Estadisticas(0, Frac(0, 1), 0, 0, NINGUNA)
Llamada(raised, hit, m, stats) ==
    [raised |-> raised, hit |-> hit, memo |-> m, stats |-> stats]

\* The body of calcular_estadisticas_cached: d.get(...) on each element of
\* the key.  An element of a hashable key is a tuple, which has no get
\* (AttributeError); the body runs to its end on the empty tuple only.
CuerpoCached(k) ==
    IF \E i \in 1..Len(k) : k[i].kind # "dict"
    THEN [raised |-> TRUE, stats |-> SinStats]
    ELSE [raised |-> FALSE, stats |-> Estadisticas(Len(k), Frac(0, 1), 0, 0, NINGUNA)]

\* calcular_estadisticas_cached(k) behind its lru_cache: an exception stores
\* nothing.
calcular_estadisticas_cached(m, k) ==
    IF ~Hashable(k) THEN Llamada(TRUE, FALSE, m, SinStats)
    ELSE IF EnMemo(m, k) THEN Llamada(FALSE, TRUE, MemoUsa(m, k), CuerpoCached(k).stats)
    ELSE LET c == CuerpoCached(k) IN
         IF c.raised THEN Llamada(TRUE, FALSE, m, SinStats)
         ELSE Llamada(FALSE, FALSE, MemoGuarda(m, k), c.stats)

\* obtener_figura_mas_frecuente_cached(k) behind its lru_cache, for a key
\* whose elements are not dicts ('figura' in dato is false for each): the
\* result is 'ninguna'.
obtener_figura_mas_frecuente_cached(m, k) ==
    IF EnMemo(m, k) THEN [hit |-> TRUE, memo |-> MemoUsa(m, k), figura |-> NINGUNA]
    ELSE [hit |-> FALSE, memo |-> MemoGuarda(m, k), figura |-> NINGUNA]

\* What a statistics or search call reported.
Informe(op, h, mostrado, stats, hit, sinCache, repetida, nombre, sel) ==
    [op |-> op, h |-> h, mostrado |-> mostrado, stats |-> stats, hit |-> hit,
     sinCache |-> sinCache, repetida |-> repetida,
     tres |-> mostrado /\ stats.perimetro_promedio.num > 0,
     texto |-> title(stats.figura_mas_calculada.s),
     nombre |-> nombre, sel |-> sel]
SinInforme == Informe("nada", <<>>, FALSE, SinStats, FALSE, FALSE, FALSE, <<>>, <<>>)

\* mostrar_estadisticas_resumidas(h): nothing for an empty History; else the
\* memoised statistics, and on any exception the ones computed without memo.
mostrar_estadisticas_resumidas(m, h, repetida) ==
    IF h = <<>>
    THEN [memo |-> m,
          res |-> Informe("mostrar", h, FALSE, SinStats, FALSE, FALSE, repetida, <<>>, <<>>)]
    ELSE LET c == calcular_estadisticas_cached(m, datos_a_tuple(h))
             stats == IF c.raised THEN calcular_estadisticas_sin_cache(h) ELSE c.stats
         IN [memo |-> c.memo,
             res |-> Informe("mostrar", h, TRUE, stats, c.hit, c.raised, repetida,
                             <<>>, <<>>)]

\* buscar_por_figura(figura) on the list cargar_json returned: the entries
\* whose figura ('' when the key is missing), lower-cased, is the name.
buscar_por_figura(h, nombre) ==
    LET figura == strip(lower(nombre)) IN
    SelectSeq(h, LAMBDA registro :
                     /\ registro.kind = "dict"
                     /\ lower(registro.figura.s) = figura)

\* The keys obtener_figura_mas_frecuente_cached is called with: each number
\* stands for one datos_tuple, different numbers for different tuples.
Claves == 1..(maxsize + MaxNuevas)

\* A value that is neither a string nor missing (None, a number), and an
\* entry of the list that is not a dict.
Otro == [tipo |-> "otro", s |-> <<>>, v |-> 0]
NoDict == [kind |-> "otro", figura |-> Falta, perimetro |-> Falta]

\* registro.get('figura', '').lower() raises AttributeError for a dict whose
\* figura is not a string; the exception is not caught.
BuscarFalla(h) ==
    \E i \in 1..Len(h) : h[i].kind = "dict" /\ h[i].figura.tipo = "otro"

\* ----------------------------------------------------- calcular_perimetro
\* kwargs is the sequence of its <<name, value>> pairs; the values are
\* integers and a perimeter is kept in hundredths, as round(x, 2) leaves it.
NombresDe(kw) == {kw[i][1] : i \in 1..Len(kw)}
Arg(kw, n) == kw[CHOOSE i \in 1..Len(kw) : kw[i][1] = n][2]

\* What a formula function does: it raises ValueError or returns v.
Rechaza == [raised |-> TRUE, v |-> 0]
Devuelve(x) == [raised |-> FALSE, v |-> x]

\* round(100 * sqrt(n)) and round(100 * 2 * pi * r)
Raiz100(n) ==
    CHOOSE k \in 0..(100 * n) :
        (2 * k - 1) * (2 * k - 1) <= 40000 * n /\ 40000 * n < (2 * k + 1) * (2 * k + 1)
DosPi100(r) == (628318531 * r + 500000) \div 1000000

perimetro_cuadrado(lado) == IF lado <= 0 THEN Rechaza ELSE Devuelve(100 * 4 * lado)

perimetro_rectangulo(base, altura) ==
    IF base <= 0 \/ altura <= 0 THEN Rechaza ELSE Devuelve(100 * 2 * (base + altura))

perimetro_trapecio(base_mayor, base_menor, lado) ==
    IF base_mayor <= 0 \/ base_menor <= 0 \/ lado <= 0 THEN Rechaza
    ELSE Devuelve(100 * (base_mayor + base_menor + lado * 2))

perimetro_circulo(radio) == IF radio <= 0 THEN Rechaza ELSE Devuelve(DosPi100(radio))

perimetro_poligono_regular(num_lados, lado) ==
    IF num_lados < 3 THEN Rechaza
    ELSE IF lado <= 0 THEN Rechaza
    ELSE Devuelve(100 * num_lados * lado)

perimetro_triangulo_equilatero(lado) == IF lado <= 0 THEN Rechaza ELSE Devuelve(100 * 3 * lado)

perimetro_triangulo_isosceles(lados_iguales, lado) ==
    IF lados_iguales <= 0 \/ lado <= 0 THEN Rechaza
    ELSE Devuelve(100 * (2 * lados_iguales + lado))

\* not ((l1 + l2) > l3) and ((l2 + l3) > l1) and ((l1 + l3) > l2): the not
\* applies to the first comparison only.
perimetro_triangulo_escaleno(lado_1, lado_2, lado_3) ==
    IF lado_1 <= 0 \/ lado_2 <= 0 \/ lado_3 <= 0 THEN Rechaza
    ELSE IF /\ ~((lado_1 + lado_2) > lado_3)
            /\ (lado_2 + lado_3) > lado_1
            /\ (lado_1 + lado_3) > lado_2
         THEN Rechaza
    ELSE Devuelve(100 * (lado_1 + lado_2 + lado_3))

perimetro_triangulo_rectangulo(cateto_1, cateto_2) ==
    IF cateto_1 <= 0 \/ cateto_2 <= 0 THEN Rechaza
    ELSE Devuelve(100 * (cateto_1 + cateto_2)
                  + Raiz100(cateto_1 * cateto_1 + cateto_2 * cateto_2))

\* The keys of the dict figuras and the parameter names of each function.
FIGURAS ==
    {"cuadrado", "rectangulo", "trapecio", "circulo", "poligono_regular",
     "triangulo_equilatero", "triangulo_isosceles", "triangulo_escaleno",
     "triangulo_rectangulo"}
Firma(fig) ==
    CASE fig = "cuadrado" -> {"lado"}
      [] fig = "rectangulo" -> {"base", "altura"}
      [] fig = "trapecio" -> {"base_mayor", "base_menor", "lado"}
      [] fig = "circulo" -> {"radio"}
      [] fig = "poligono_regular" -> {"num_lados", "lado"}
      [] fig = "triangulo_equilatero" -> {"lado"}
      [] fig = "triangulo_isosceles" -> {"lados_iguales", "lado"}
      [] fig = "triangulo_escaleno" -> {"lado_1", "lado_2", "lado_3"}
      [] fig = "triangulo_rectangulo" -> {"cateto_1", "cateto_2"}

\* figuras[figura](**kwargs), the names being those of the function.
Formula(fig, kw) ==
    CASE fig = "cuadrado" -> perimetro_cuadrado(Arg(kw, "lado"))
      [] fig = "rectangulo" -> perimetro_rectangulo(Arg(kw, "base"), Arg(kw, "altura"))
      [] fig = "trapecio" ->
             perimetro_trapecio(Arg(kw, "base_mayor"), Arg(kw, "base_menor"), Arg(kw, "lado"))
      [] fig = "circulo" -> perimetro_circulo(Arg(kw, "radio"))
      [] fig = "poligono_regular" ->
             perimetro_poligono_regular(Arg(kw, "num_lados"), Arg(kw, "lado"))
      [] fig = "triangulo_equilatero" -> perimetro_triangulo_equilatero(Arg(kw, "lado"))
      [] fig = "triangulo_isosceles" ->
             perimetro_triangulo_isosceles(Arg(kw, "lados_iguales"), Arg(kw, "lado"))
      [] fig = "triangulo_escaleno" ->
             perimetro_triangulo_escaleno(Arg(kw, "lado_1"), Arg(kw, "lado_2"),
                                          Arg(kw, "lado_3"))
      [] fig = "triangulo_rectangulo" ->
             perimetro_triangulo_rectangulo(Arg(kw, "cateto_1"), Arg(kw, "cateto_2"))

\* The outcome of one call: salida is "num" (the perimeter is returned),
\* "texto" (the message 'Argumentos incorrectos ...' is returned) or
\* "ValueError" (raised to the caller); registra: registrar_resultado ran.
Calculo(fig, kw, salida, perimetro, registra) ==
    [figura |-> fig, kwargs |-> kw, salida |-> salida, perimetro |-> perimetro,
     registra |-> registra]

\* A calcular_perimetro that hands every request to registrar_resultado.
calcular_y_registrar(fig, kw) ==
    IF fig \notin FIGURAS THEN Calculo(fig, kw, "ValueError", 0, TRUE)
    ELSE IF NombresDe(kw) # Firma(fig) THEN Calculo(fig, kw, "texto", 0, TRUE)
    ELSE LET r == Formula(fig, kw) IN
         IF r.raised THEN Calculo(fig, kw, "ValueError", 0, TRUE)
         ELSE Calculo(fig, kw, "num", r.v, TRUE)

\* calcular_perimetro up to the call of registrar_resultado.  A call with
\* names that are not the function's raises TypeError, which is caught.
calcular_perimetro(fig, kw) ==
    IF fig \notin FIGURAS THEN Calculo(fig, kw, "ValueError", 0, FALSE)
    ELSE IF NombresDe(kw) # Firma(fig) THEN Calculo(fig, kw, "texto", 0, FALSE)
    ELSE LET r == Formula(fig, kw) IN
         IF r.raised THEN Calculo(fig, kw, "ValueError", 0, FALSE)
         ELSE Calculo(fig, kw, "num", r.v, TRUE)

\* registrar_resultado(**datos): the dict handed to guardar_json_append.
registrar_resultado(c) ==
    [fecha |-> "obtener_fecha", figura |-> c.figura, perimetro |-> c.perimetro,
     parametros |-> c.kwargs]

\* The text of the record: r1 stands for the key/value text of the record of
\* a square, r2 for that of any other figure.
TextoDe(dato) == IF dato.figura = "cuadrado" THEN "r1" ELSE "r2"

\* No call was made yet.  turno tells one call from the next.
SinCalculo == [llamada |-> Calculo("", <<>>, "nada", 0, FALSE), turno |-> 0]

\* menu(): where the loop is after an iteration.  opcion and confirmacion are
\* what Prompt.ask returned (0 and "": not asked), exc the exception the
\* iteration met.
Vuelta(pc, opcion, confirmacion, exc) ==
    [pc |-> pc, opcion |-> opcion, confirmacion |-> confirmacion, exc |-> exc]
EnMenu == Vuelta("menu", 0, "", "none")

\* The memos are empty and nothing was asked yet.
EstReposo ==
    /\ entrada = <<>>
    /\ res = SinInforme
    /\ memoStats = <<>>
    /\ memoFigura = <<>>
    /\ uso = [k \in Claves |-> 0]
    /\ llamadas = 0
    /\ calc = SinCalculo
    /\ menu = EnMenu

\* ----------------------------------------------------------------- actions
\* The store before the process starts: every file is absent, or the history
\* file holds text the store did not write.  The cache is process-local and
\* starts empty.
ArchivosIniciales ==
    { [p \in Rutas |-> Ausente] }
    \cup { [p \in Rutas |-> IF p = ARCHIVO_JSON THEN Archivo(text, 0) ELSE Ausente] :
           text \in ContenidosExternos }

InitAlmacen(fs, org) ==
    /\ files = fs
    /\ cache = CacheVacio
    /\ now = 0
    /\ last = Op("init", ARCHIVO_JSON, FALSE, TRUE, FALSE)
    /\ origen = [p \in Rutas |-> IF fs[p].exists THEN org ELSE "store"]
    /\ held = <<>>
    /\ hilos = [t \in Hilos |-> Reposo]
    /\ lock = 0
    /\ captura = NoneT

InitCon(fs, org) == InitAlmacen(fs, org) /\ EstReposo

Init == \E fs \in ArchivosIniciales : InitCon(fs, "externo")

\* What a load changes.
Lectura(p, uc, io) ==
    LET r == CargarCon(cache, files[p], now, None, uc, io) IN
    /\ cache' = r.cache
    /\ last' = Op("cargar", p, uc, ~r.raised, is_valid(cache, files[p], now))

Cargar(p, uc, io) ==
    /\ Lectura(p, uc, io)
    /\ UNCHANGED <<estVars, files, now, origen, held, hilosVars>>

\* The caller's list once the cache entry is another object: nothing shared.
SinRefs(h) == [i \in 1..Len(h) |-> [h[i] EXCEPT !.ref = 0]]

\* What a writer changes.  entero: the writer wrote the whole text of the
\* file.
Efecto(nombre, p, uc, r, entero) ==
    /\ Cabe(r.file)
    /\ files' = [files EXCEPT ![p] = r.file]
    /\ cache' = r.cache
    /\ last' = Op(nombre, p, uc, r.ok, is_valid(cache, files[p], now))
    /\ origen' = [origen EXCEPT ![p] = IF r.ok /\ entero THEN "store" ELSE @]
    /\ held' = IF r.cache = cache THEN held ELSE SinRefs(held)

\* A writer's step.
Escribe(nombre, p, uc, io, r, entero) ==
    /\ Efecto(nombre, p, uc, r, entero)
    /\ UNCHANGED <<estVars, now, hilosVars>>

Guardar(p, d, uc, io) ==
    Escribe("guardar", p, uc, io,
            guardar_json(cache, files[p], now, d, uc, io), TRUE)

GuardarAppend(p, d, io) ==
    Escribe("append", p, TRUE, io,
            guardar_json_append(cache, files[p], now, d, io),
            ~files[p].exists \/ Len(files[p].content) = 0)

GuardarBatch(p, ds, io) ==
    Escribe("batch", p, TRUE, io,
            guardar_json_batch(cache, files[p], now, ds, io), TRUE)

Limpiar(io) ==
    Escribe("limpiar", ARCHIVO_JSON, TRUE, io,
            limpiar_historial(cache, files[ARCHIVO_JSON], io), TRUE)

\* Time passes.
Tick ==
    /\ now + TickStep <= MaxTime
    /\ now' = now + TickStep
    /\ UNCHANGED <<estVars, files, cache, last, origen, held, hilosVars>>

\* The operations on the paths of R.
NextEn(R) ==
    \/ \E p \in R, uc \in BOOLEAN, io \in {"none", "read"} : Cargar(p, uc, io)
    \/ \E p \in R, d \in Datos, uc \in BOOLEAN, io \in IOFallos : Guardar(p, d, uc, io)
    \/ \E p \in R, d \in Datos, io \in {"none", "write"} : GuardarAppend(p, d, io)
    \/ \E p \in R, ds \in Lotes, io \in IOFallos : GuardarBatch(p, ds, io)
    \/ \E io \in {"none", "write"} : Limpiar(io)
    \/ Tick

\* A second history file, read and saved through the same cache.
NextOtra ==
    \/ Cargar(OTRA_RUTA, TRUE, "none")
    \/ Guardar(OTRA_RUTA, "r2", TRUE, "none")

Next == NextEn({ARCHIVO_JSON}) \/ NextOtra

Spec == Init /\ [][Next]_vars

\* The first run: no file exists yet.
InitVacio == InitCon([p \in Rutas |-> Ausente], "store")

SpecVacio == InitVacio /\ [][Next]_vars

\* The history file starts with UmbralCompacto records, as the store wrote
\* them (the next record makes the store change format), or with no bytes.
InitGrande ==
    \/ InitCon([p \in Rutas |-> IF p = ARCHIVO_JSON
                                THEN Archivo(DumpLista(HistoriaGrande), 0)
                                ELSE Ausente], "store")
    \/ InitCon([p \in Rutas |-> IF p = ARCHIVO_JSON THEN Archivo(<<>>, 0) ELSE Ausente],
               "externo")

SpecGrande == InitGrande /\ [][NextEn({ARCHIVO_JSON})]_vars

\* The store under failures: a path that cannot be examined, a file that
\* cannot be opened for writing, a record json cannot encode.
Fallos == {"none", "stat", "read", "write", "dump"}

NextFallo ==
    \/ \E p \in Rutas, io \in {"none", "stat"} : Cargar(p, TRUE, io)
    \/ \E io \in {"none", "write", "dump"} : Guardar(ARCHIVO_JSON, "r1", TRUE, io)
    \/ \E io \in {"none", "write"} : Guardar(OTRA_RUTA, "r2", TRUE, io)
    \/ \E io \in {"none", "dump"} : GuardarAppend(ARCHIVO_JSON, "r2", io)
    \/ \E io \in {"none", "dump"} : GuardarBatch(ARCHIVO_JSON, <<"r2", "r1">>, io)
    \/ Limpiar("none")
    \/ Tick

SpecFallo == InitVacio /\ [][NextFallo]_vars

\* ----------------------------------------------------- the caller's list
\* cargar_json() whose result the caller keeps.  list.copy() in get and set is
\* shallow: the list returned is a new list, its records are the very objects
\* of the cache entry (on a hit, and on the miss that filled the entry).
CargarRetiene(p) ==
    LET r == cargar_json(cache, files[p], now, None, TRUE, FALSE)
        comparte == r.hit \/ r.leido
    IN  /\ r.ret.kind = "list"
        /\ cache' = r.cache
        /\ held' = [i \in 1..Len(r.ret.items) |->
                      [val |-> r.ret.items[i], ref |-> IF comparte THEN i ELSE 0]]
        /\ last' = Op("cargar", p, TRUE, TRUE, is_valid(cache, files[p], now))
        /\ UNCHANGED <<estVars, files, now, origen, hilosVars>>

\* datos.append(d) or datos.pop() on the list the caller holds.
MutarLista ==
    /\ \/ \E d \in Datos :
            /\ Len(held) <= MaxLen
            /\ held' = Append(held, [val |-> d, ref |-> 0])
       \/ /\ held # <<>>
          /\ held' = SubSeq(held, 1, Len(held) - 1)
    /\ last' = Op("mutar", ARCHIVO_JSON, TRUE, TRUE, FALSE)
    /\ UNCHANGED <<estVars, files, cache, now, origen, hilosVars>>

\* datos[i][campo] = valor: the record becomes the record d.
MutarRegistro(i, d) ==
    /\ i \in 1..Len(held)
    /\ held[i].val # d
    /\ held' = [held EXCEPT ![i].val = d]
    /\ cache' = IF held[i].ref = 0 THEN cache
                ELSE [cache EXCEPT !.cache.items[held[i].ref] = d]
    /\ last' = Op("mutar", ARCHIVO_JSON, TRUE, TRUE, FALSE)
    /\ UNCHANGED <<estVars, files, now, origen, hilosVars>>

\* A caller that loads, changes what it got, and appends records; every
\* write here invalidates the cache.
NextCaller ==
    \/ CargarRetiene(ARCHIVO_JSON)
    \/ MutarLista
    \/ \E i \in 1..(MaxLen + 1), d \in Datos : MutarRegistro(i, d)
    \/ \E d \in Datos : GuardarAppend(ARCHIVO_JSON, d, "none")
    \/ Tick

SpecCaller == InitVacio /\ [][NextCaller]_vars

\* ------------------------------------------------------------- threads
\* Several threads of the process call cargar_json(), guardar_json_append()
\* and limpiar_historial() on ARCHIVO_JSON.  Each statement that reads or
\* writes the file or a field of the cache entry is a step of its own; the
\* lock is taken and released where `with self._lock:` begins and ends.
Pasa(t, pc) == hilos' = [hilos EXCEPT ![t].pc = pc]

\* `with self._lock:` entered: the thread waits until the lock is free.
Adquiere(t, de, a) ==
    /\ hilos[t].pc \in de
    /\ lock = 0
    /\ lock' = t
    /\ Pasa(t, a)
    /\ UNCHANGED <<estVars, files, cache, now, captura, secVars>>

\* The end of a `with self._lock:` block.
Libera(t, de, a) ==
    /\ hilos[t].pc = de
    /\ lock' = 0
    /\ Pasa(t, a)
    /\ UNCHANGED <<estVars, files, cache, now, captura, secVars>>

\* cargar_json() begins: _cache_global.get(ruta) takes the lock.
GetEntra(t) == Adquiere(t, {"idle"}, "get")

\* The body of CacheJSON.get: is_valid and the copy of the snapshot.
GetCuerpo(t) ==
    LET dc == get(cache, files[ARCHIVO_JSON], now) IN
    /\ hilos[t].pc = "get"
    /\ hilos' = [hilos EXCEPT ![t] =
                   [Reposo EXCEPT !.pc = IF dc # None THEN "get_hit" ELSE "get_miss",
                                  !.datos = dc]]
    /\ UNCHANGED <<estVars, files, cache, now, lock, captura, secVars>>

\* get returns the snapshot and cargar_json returns it.
GetSaleHit(t) ==
    /\ hilos[t].pc = "get_hit"
    /\ lock' = 0
    /\ hilos' = [hilos EXCEPT ![t] = Reposo]
    /\ UNCHANGED <<estVars, files, cache, now, captura, secVars>>

\* get returns None and cargar_json goes on to the file.
GetSaleMiss(t) == Libera(t, "get_miss", "leer")

\* `if ruta.exists():` with open and json.load; an absent file ends the call.
Leer(t) ==
    LET f == files[ARCHIVO_JSON] IN
    /\ hilos[t].pc = "leer"
    /\ hilos' = [hilos EXCEPT ![t] =
                   IF f.exists /\ JsonLoad(f.content) # JSONDecodeError
                   THEN [Reposo EXCEPT !.pc = "set_entra",
                                       !.datos = JsonLoad(f.content),
                                       !.mt = f.mtime]
                   ELSE Reposo]
    /\ UNCHANGED <<estVars, files, cache, now, lock, captura, secVars>>

\* _cache_global.set(ruta, datos) takes the lock.
SetEntra(t) == Adquiere(t, {"set_entra"}, "set_cache")

\* self._cache = datos.copy() if datos else []
SetCache(t) ==
    /\ hilos[t].pc = "set_cache"
    /\ cache' = [cache EXCEPT !.cache = IF Truthy(hilos[t].datos)
                                        THEN hilos[t].datos ELSE EmptyList]
    /\ captura' = hilos[t].mt
    /\ Pasa(t, "set_timestamp")
    /\ UNCHANGED <<estVars, files, now, lock, secVars>>

\* self._timestamp = datetime.now().timestamp()
SetTimestamp(t) ==
    /\ hilos[t].pc = "set_timestamp"
    /\ cache' = [cache EXCEPT !.timestamp = now]
    /\ Pasa(t, "set_mtime")
    /\ UNCHANGED <<estVars, files, now, lock, captura, secVars>>

\* if ruta.exists(): self._file_mtime = ruta.stat().st_mtime
SetMtime(t) ==
    LET f == files[ARCHIVO_JSON] IN
    /\ hilos[t].pc = "set_mtime"
    /\ cache' = [cache EXCEPT !.file_mtime = IF f.exists THEN f.mtime ELSE @]
    /\ Pasa(t, "set_sale")
    /\ UNCHANGED <<estVars, files, now, lock, captura, secVars>>

\* set returns, and cargar_json returns datos.
SetSale(t) ==
    /\ hilos[t].pc = "set_sale"
    /\ lock' = 0
    /\ hilos' = [hilos EXCEPT ![t] = Reposo]
    /\ UNCHANGED <<estVars, files, cache, now, captura, secVars>>

\* guardar_json_append(d): the file is written; invalidar is still to come.
AppendArchivo(t, d) ==
    LET r == guardar_json_append(cache, files[ARCHIVO_JSON], now, d, "none") IN
    /\ hilos[t].pc = "idle"
    /\ Cabe(r.file)
    /\ files' = [files EXCEPT ![ARCHIVO_JSON] = r.file]
    /\ Pasa(t, "inv_entra")
    /\ UNCHANGED <<estVars, cache, now, lock, captura, secVars>>

\* limpiar_historial(): `if ARCHIVO_JSON.exists():` found the file.
LimpiarExiste(t) ==
    /\ hilos[t].pc = "idle"
    /\ files[ARCHIVO_JSON].exists
    /\ Pasa(t, "unlink")
    /\ UNCHANGED <<estVars, files, cache, now, lock, captura, secVars>>

\* ARCHIVO_JSON.unlink(); FileNotFoundError, when another thread removed the
\* file first, ends the call in the except clause.
LimpiarUnlink(t) ==
    /\ hilos[t].pc = "unlink"
    /\ files' = [files EXCEPT ![ARCHIVO_JSON] = Ausente]
    /\ Pasa(t, IF files[ARCHIVO_JSON].exists THEN "inv_entra" ELSE "idle")
    /\ UNCHANGED <<estVars, cache, now, lock, captura, secVars>>

\* _cache_global.invalidar() takes the lock.
InvEntra(t) == Adquiere(t, {"inv_entra"}, "inv_cache")

\* self._cache = None
InvCache(t) ==
    /\ hilos[t].pc = "inv_cache"
    /\ cache' = [cache EXCEPT !.cache = None]
    /\ captura' = NoneT
    /\ Pasa(t, "inv_timestamp")
    /\ UNCHANGED <<estVars, files, now, lock, secVars>>

\* self._timestamp = None
InvTimestamp(t) ==
    /\ hilos[t].pc = "inv_timestamp"
    /\ cache' = [cache EXCEPT !.timestamp = NoneT]
    /\ Pasa(t, "inv_mtime")
    /\ UNCHANGED <<estVars, files, now, lock, captura, secVars>>

\* self._file_mtime = None
InvMtime(t) ==
    /\ hilos[t].pc = "inv_mtime"
    /\ cache' = [cache EXCEPT !.file_mtime = NoneT]
    /\ Pasa(t, "inv_sale")
    /\ UNCHANGED <<estVars, files, now, lock, captura, secVars>>

\* invalidar returns, and the writer returns True.
InvSale(t) == Libera(t, "inv_sale", "idle")

\* Time passes while the threads run.
TickHilos ==
    /\ now + TickStep <= MaxTime
    /\ now' = now + TickStep
    /\ UNCHANGED <<estVars, files, cache, secVars, hilosVars>>

NextHilos ==
    \/ \E t \in Hilos :
          \/ GetEntra(t) \/ GetCuerpo(t) \/ GetSaleHit(t) \/ GetSaleMiss(t)
          \/ Leer(t)
          \/ SetEntra(t) \/ SetCache(t) \/ SetTimestamp(t) \/ SetMtime(t)
          \/ SetSale(t)
          \/ \E d \in Datos : AppendArchivo(t, d)
          \/ LimpiarExiste(t) \/ LimpiarUnlink(t)
          \/ InvEntra(t) \/ InvCache(t) \/ InvTimestamp(t) \/ InvMtime(t)
          \/ InvSale(t)
    \/ TickHilos

SpecHilos == InitVacio /\ [][NextHilos]_vars

\* ------------------------------------------------------ writing threads
\* Two threads each store one record on ARCHIVO_JSON, with guardar_json,
\* guardar_json_batch or guardar_json_append.  No lock is taken around the
\* file: a thread's load, its write and its invalidar are separate steps,
\* and so are the scan of guardar_json_append and the write of what it
\* buffered (flushed when the file is closed).
Registro(t) == IF t = 1 THEN "r1" ELSE "r2"

\* The text in the file after buf is written at offset pos: what lay there is
\* overwritten, what lies beyond stays.
EscribeEn(text, pos, buf) ==
    SubSeq(text, 1, pos) \o buf \o SubSeq(text, pos + Len(buf) + 1, Len(text))

\* guardar_json(dato) / guardar_json_batch([dato]): datos = cargar_json(ruta, [])
GuardarCarga(t) ==
    LET r == cargar_json(cache, files[ARCHIVO_JSON], now, EmptyList, TRUE, FALSE) IN
    /\ hilos[t].pc = "idle"
    /\ r.ret.kind = "list"
    /\ cache' = r.cache
    /\ hilos' = [hilos EXCEPT ![t] = [Reposo EXCEPT !.pc = "g_escribe",
                                                    !.datos = r.ret]]
    /\ UNCHANGED <<estVars, files, now, lock, captura, secVars>>

\* datos.append(dato); with ruta.open('w'): json.dump(datos, f)
GuardarEscribe(t) ==
    /\ hilos[t].pc = "g_escribe"
    /\ files' = [files EXCEPT ![ARCHIVO_JSON] =
                   Archivo(DumpLista(Append(hilos[t].datos.items, Registro(t))), now)]
    /\ Pasa(t, "invalida")
    /\ UNCHANGED <<estVars, cache, now, lock, captura, secVars>>

\* guardar_json_append(dato): the file is absent or empty and is opened with
\* 'w', which empties it; or it is opened with 'r+' and scanned for the ']'.
AppendAbre(t) ==
    LET f == files[ARCHIVO_JSON]
        nuevo == ~f.exists \/ Len(f.content) = 0
        pos == PosCierre(f.content)
        coma == IF pos > 1 /\ f.content[pos] # "[" THEN <<",", NL>> ELSE <<>>
    IN  /\ hilos[t].pc = "idle"
        /\ files' = [files EXCEPT ![ARCHIVO_JSON] =
                       IF nuevo THEN Archivo(<<>>, now) ELSE f]
        /\ hilos' = [hilos EXCEPT ![t] =
              [Reposo EXCEPT
                 !.pc = "a_escribe",
                 !.pos = IF nuevo THEN 0 ELSE pos,
                 !.buf = IF nuevo THEN DumpIndent(<<Registro(t)>>)
                         ELSE coma \o IndentLines(DumpsIndent(Registro(t)))
                                   \o <<NL, "]">>]]
        /\ UNCHANGED <<estVars, cache, now, lock, captura, secVars>>

\* The file is closed and what was buffered is written where the thread stood.
AppendEscribe(t) ==
    /\ hilos[t].pc = "a_escribe"
    /\ files' = [files EXCEPT ![ARCHIVO_JSON] =
                   Archivo(EscribeEn(@.content, hilos[t].pos, hilos[t].buf), now)]
    /\ Pasa(t, "invalida")
    /\ UNCHANGED <<estVars, cache, now, lock, captura, secVars>>

\* _cache_global.invalidar(); return True
EscritorInvalida(t) ==
    /\ hilos[t].pc = "invalida"
    /\ lock = 0
    /\ cache' = invalidar(cache)
    /\ hilos' = [hilos EXCEPT ![t] = [Reposo EXCEPT !.pc = "fin"]]
    /\ UNCHANGED <<estVars, files, now, lock, captura, secVars>>

\* A load by the main thread, which fills the cache.
CargaPrincipal ==
    /\ cache' = cargar_json(cache, files[ARCHIVO_JSON], now, None, TRUE, FALSE).cache
    /\ UNCHANGED <<estVars, files, now, hilosVars, secVars>>

NextEscritores ==
    \/ \E t \in Hilos :
          \/ GuardarCarga(t) \/ GuardarEscribe(t)
          \/ AppendAbre(t) \/ AppendEscribe(t)
          \/ EscritorInvalida(t)
    \/ CargaPrincipal
    \/ TickHilos

\* The history file is absent, or holds one record the store wrote.
InitEscritores ==
    \/ InitVacio
    \/ InitCon([p \in Rutas |-> IF p = ARCHIVO_JSON
                                THEN Archivo(DumpLista(<<"r1">>), 0)
                                ELSE Ausente], "store")

SpecEscritores == InitEscritores /\ [][NextEscritores]_vars

\* ------------------------------------------- statistics and search: steps
\* The records of the Histories: figura in two spellings, a perimetro that is
\* a number, a string, a boolean or missing, a record with no figura.
Entradas ==
    {Reg(Str(<<"a">>), Num(10)), Reg(Str(<<"b">>), Num(20)),
     Reg(Str(<<"b">>), Str(<<"m">>)), Reg(Str(<<"A">>), Falta),
     Reg(Falta, Num(0)), Reg(Str(<<"a">>), Bool(TRUE))}
Historias == UNION {[1..n -> Entradas] : n \in 0..MaxHist}

\* The names asked for: as stored, in upper case, with white space around,
\* one no record has, and a blank one.
Nombres == {<<"a">>, <<"A">>, <<SP, "A", SP>>, <<"b">>, <<"a", "b">>, <<SP>>}

\* mostrar_estadisticas_resumidas(entrada)
Mostrar ==
    LET r == mostrar_estadisticas_resumidas(
                 memoStats, entrada, res.op = "mostrar" /\ res.h = entrada) IN
    /\ memoStats' = r.memo
    /\ res' = r.res
    /\ UNCHANGED <<menu, entrada, memoFigura, uso, llamadas, calc, files, cache, now, secVars, hilosVars>>

\* calcular_estadisticas_cached(datos_a_tuple(entrada)), called directly.
LlamarStats ==
    LET c == calcular_estadisticas_cached(memoStats, datos_a_tuple(entrada)) IN
    /\ memoStats' = c.memo
    /\ res' = Informe("stats", entrada, ~c.raised, c.stats, c.hit, c.raised, FALSE,
                      <<>>, <<>>)
    /\ UNCHANGED <<menu, entrada, memoFigura, uso, llamadas, calc, files, cache, now, secVars, hilosVars>>

\* buscar_por_figura(n) when cargar_json returns entrada: the selection, or
\* the exception that leaves the comprehension.
Buscar(n) ==
    /\ res' = IF BuscarFalla(entrada)
              THEN Informe("buscar_falla", entrada, FALSE, SinStats, FALSE, FALSE, FALSE,
                           n, <<>>)
              ELSE Informe("buscar", entrada, TRUE, SinStats, FALSE, FALSE, FALSE, n,
                           buscar_por_figura(entrada, n))
    /\ UNCHANGED <<menu, entrada, memoStats, memoFigura, uso, llamadas, calc, files, cache, now,
                   secVars, hilosVars>>

\* The History gains a record (registrar_resultado between two calls).
Agregar(e) ==
    /\ Len(entrada) < MaxHist
    /\ entrada' = Append(entrada, e)
    /\ UNCHANGED <<menu, res, memoStats, memoFigura, uso, llamadas, calc, files, cache, now,
                   secVars, hilosVars>>

\* buscar_por_figura(n) when cargar_json returns a value that is not a list:
\* the 'not a list' panel.
BuscarNoLista(n) ==
    /\ res' = Informe("buscar_no_lista", <<>>, FALSE, SinStats, FALSE, FALSE, FALSE, n, <<>>)
    /\ UNCHANGED <<menu, entrada, memoStats, memoFigura, uso, llamadas, calc, files, cache, now,
                   secVars, hilosVars>>

\* Lists whose entries need not be records: figura in two spellings, missing
\* or not a string, and an entry that is not a dict.
EntradasBuscar ==
    {Reg(Str(<<"a">>), Num(10)), Reg(Str(<<"A">>), Num(20)), Reg(Str(<<"b">>), Num(10)),
     Reg(Falta, Num(10)), Reg(Otro, Num(10)), NoDict}
ListasBuscar == UNION {[1..n -> EntradasBuscar] : n \in 0..MaxHist}

NextBuscar ==
    \/ \E n \in Nombres : Buscar(n)
    \/ \E n \in Nombres : BuscarNoLista(n)

InitBuscar ==
    /\ InitAlmacen([p \in Rutas |-> Ausente], "store")
    /\ entrada \in ListasBuscar
    /\ res = SinInforme
    /\ memoStats = <<>>
    /\ memoFigura = <<>>
    /\ uso = [k \in Claves |-> 0]
    /\ llamadas = 0
    /\ calc = SinCalculo
    /\ menu = EnMenu

SpecBuscar == InitBuscar /\ [][NextBuscar]_vars

NextEst ==
    \/ Mostrar
    \/ LlamarStats
    \/ \E n \in Nombres : Buscar(n)
    \/ \E e \in Entradas : Agregar(e)

InitEst ==
    /\ InitAlmacen([p \in Rutas |-> Ausente], "store")
    /\ entrada \in Historias
    /\ res = SinInforme
    /\ memoStats = <<>>
    /\ memoFigura = <<>>
    /\ uso = [k \in Claves |-> 0]
    /\ llamadas = 0
    /\ calc = SinCalculo
    /\ menu = EnMenu

SpecEst == InitEst /\ [][NextEst]_vars

\* obtener_figura_mas_frecuente_cached(k), called directly.
LlamarFigura(k) ==
    LET c == obtener_figura_mas_frecuente_cached(memoFigura, k) IN
    /\ llamadas < MaxLlamadas \/ (maxsize <= llamadas /\ llamadas < maxsize + MaxLlamadas)
    /\ memoFigura' = c.memo
    /\ llamadas' = llamadas + 1
    /\ uso' = [uso EXCEPT ![k] = llamadas + 1]
    /\ res' = Informe("figura", <<>>, TRUE,
                      Estadisticas(0, Frac(0, 1), 0, 0, c.figura), c.hit, FALSE, FALSE,
                      <<>>, <<>>)
    /\ UNCHANGED <<menu, entrada, memoStats, calc, files, cache, now, secVars, hilosVars>>

\* The keys of the calls: the first two and the last that filled the memo,
\* and the new ones.
ClavesLlamadas == {1, 2, maxsize} \cup {k \in Claves : k > maxsize}

NextMemo ==
    \/ \E k \in ClavesLlamadas : LlamarFigura(k)
    \/ LlamarStats
    \/ Mostrar

\* The memo of obtener_figura_mas_frecuente_cached is empty, or holds the
\* keys 1..maxsize after one call with each, in this order.
InitMemo ==
    /\ InitAlmacen([p \in Rutas |-> Ausente], "store")
    /\ entrada \in {<<>>, <<Reg(Str(<<"a">>), Num(10))>>}
    /\ res = SinInforme
    /\ memoStats = <<>>
    /\ calc = SinCalculo
    /\ menu = EnMenu
    /\ \E lleno \in BOOLEAN :
           /\ memoFigura = IF lleno THEN [i \in 1..maxsize |-> i] ELSE <<>>
           /\ uso = [k \in Claves |-> IF lleno /\ k <= maxsize THEN k ELSE 0]
           /\ llamadas = IF lleno THEN maxsize ELSE 0

SpecMemo == InitMemo /\ [][NextMemo]_vars

\* ------------------------------------------------ calcular_perimetro: steps
\* calcular_perimetro(fig, **kw): the formula and, when it returns, the
\* record appended by registrar_resultado, whose result is not looked at.
CalculaYRegistra(fig, kw, io) ==
    LET c == calcular_perimetro(fig, kw)
        p == ARCHIVO_JSON
        r == guardar_json_append(cache, files[p], now, TextoDe(registrar_resultado(c)), io)
    IN /\ calc' = [llamada |-> c, turno |-> 1 - calc.turno]
       /\ IF c.registra
          THEN /\ Cabe(r.file)
               /\ files' = [files EXCEPT ![p] = r.file]
               /\ cache' = r.cache
               /\ last' = Op("append", p, TRUE, r.ok, is_valid(cache, files[p], now))
               /\ origen' = [origen EXCEPT
                                ![p] = IF r.ok /\ (~files[p].exists \/ Len(files[p].content) = 0)
                                       THEN "store" ELSE @]
               /\ held' = IF r.cache = cache THEN held ELSE SinRefs(held)
          ELSE UNCHANGED <<files, cache, last, origen, held>>

Calcular(fig, kw, io) ==
    /\ CalculaYRegistra(fig, kw, io)
    /\ UNCHANGED <<menu, entrada, res, memoStats, memoFigura, uso, llamadas, now, hilosVars>>

\* The requests: a square and a polygon that are computed; a figure that is
\* not known, a parameter that is not positive for each of the nine figures,
\* a polygon of two sides, a name that is not the function's, a name missing.
Validas ==
    {<<"cuadrado", <<<<"lado", 2>>>>>>,
     <<"poligono_regular", <<<<"num_lados", 3>>, <<"lado", 2>>>>>>}
Rechazadas ==
    {<<"hexagono", <<<<"lado", 2>>>>>>,
     <<"cuadrado", <<<<"lado", 0>>>>>>,
     <<"rectangulo", <<<<"base", 2>>, <<"altura", -1>>>>>>,
     <<"trapecio", <<<<"base_mayor", 3>>, <<"base_menor", 0>>, <<"lado", 2>>>>>>,
     <<"circulo", <<<<"radio", -1>>>>>>,
     <<"poligono_regular", <<<<"num_lados", 3>>, <<"lado", 0>>>>>>,
     <<"poligono_regular", <<<<"num_lados", 2>>, <<"lado", 2>>>>>>,
     <<"triangulo_equilatero", <<<<"lado", 0>>>>>>,
     <<"triangulo_isosceles", <<<<"lados_iguales", 0>>, <<"lado", 2>>>>>>,
     <<"triangulo_escaleno", <<<<"lado_1", 3>>, <<"lado_2", 0>>, <<"lado_3", 2>>>>>>,
     <<"triangulo_rectangulo", <<<<"cateto_1", 3>>, <<"cateto_2", -1>>>>>>,
     <<"cuadrado", <<<<"radio", 2>>>>>>,
     <<"rectangulo", <<<<"base", 2>>>>>>}
Peticiones == Validas \cup Rechazadas

NextCalc ==
    \/ \E q \in Peticiones, io \in {"none", "write"} : Calcular(q[1], q[2], io)
    \/ Cargar(ARCHIVO_JSON, TRUE, "none")
    \/ Limpiar("none")
    \/ Tick

SpecCalc == InitVacio /\ [][NextCalc]_vars

\* perimetro_triangulo_escaleno on three sides, called by itself.
Escaleno ==
    LET kw == calc.llamada.kwargs
        r == perimetro_triangulo_escaleno(Arg(kw, "lado_1"), Arg(kw, "lado_2"),
                                          Arg(kw, "lado_3"))
    IN /\ calc.llamada.salida = "pendiente"
       /\ calc' = [llamada |-> Calculo("triangulo_escaleno", kw,
                                       IF r.raised THEN "ValueError" ELSE "num",
                                       r.v, FALSE),
                   turno |-> 1 - calc.turno]
       /\ UNCHANGED <<menu, entrada, res, memoStats, memoFigura, uso, llamadas, files, cache, now,
                      secVars, hilosVars>>

\* The sides are any three lengths up to MaxLado.
InitEscaleno ==
    /\ InitAlmacen([p \in Rutas |-> Ausente], "store")
    /\ entrada = <<>>
    /\ res = SinInforme
    /\ memoStats = <<>>
    /\ memoFigura = <<>>
    /\ uso = [k \in Claves |-> 0]
    /\ llamadas = 0
    /\ menu = EnMenu
    /\ \E a, b, c \in 1..MaxLado :
           calc = [llamada |-> Calculo("triangulo_escaleno",
                                       <<<<"lado_1", a>>, <<"lado_2", b>>, <<"lado_3", c>>>>,
                                       "pendiente", 0, FALSE),
                   turno |-> 0]

SpecEscaleno == InitEscaleno /\ [][Escaleno]_vars

\* ------------------------------------------------------------------ claims
\* The file of a path is absent, has no bytes, or holds text that only the
\* store's writers wrote.
EstadoDelStore(p) ==
    ~files[p].exists \/ files[p].content = <<>> \/ origen[p] = "store"

\* C1: whenever guardar_json_append(R) returns True on a file that is absent,
\* zero-length or was written by the store (indented or compact), a load that
\* bypasses the cache returns the previous History followed by R; on an absent
\* or zero-length file it returns exactly [R].
C1_AppendAgregaAlFinal ==
    \A p \in Rutas, d \in Datos :
        LET f == files[p]
            r == guardar_json_append(cache, f, now, d, "none")
        IN  (r.ok /\ EstadoDelStore(p)) =>
                IF ~f.exists \/ f.content = <<>>
                THEN EnDisco(r.file) = PyList(<<d>>)
                ELSE /\ EnDisco(f).kind = "list"
                     /\ EnDisco(r.file) = PyList(Append(EnDisco(f).items, d))

\* C1 witness: an append has succeeded on a history that the store had written
\* in the compact format, and the file now holds two records more than the
\* threshold.
C1_Witness ==
    /\ last.op = "append" /\ last.ok
    /\ origen[ARCHIVO_JSON] = "store"
    /\ files[ARCHIVO_JSON].content[2] = "{"
    /\ Len(EnDisco(files[ARCHIVO_JSON]).items) = UmbralCompacto + 2

\* What a readThrough of the path returns now, when no I/O error occurs.
ReadThrough(p) == cargar_json(cache, files[p], now, None, TRUE, FALSE)

\* C2 (as claimed): right after any successful write (save with either value
\* of usar_cache, append, appendBatch, clear) a readThrough of the same path
\* returns exactly the History on disk.
C2_LecturaTrasEscritura ==
    (last.op \in Escrituras /\ last.ok) =>
        ReadThrough(last.ruta).ret = EnDisco(files[last.ruta])

Sirve(c, f, t) ==
    /\ c.cache # None /\ c.timestamp # NoneT
    /\ f.exists /\ c.file_mtime = f.mtime
    /\ t - c.timestamp < cache_duration

\* C7 (as claimed): a readThrough is answered from the cache only when an
\* entry exists, the file exists with the modification time recorded at
\* capture and the entry is younger than cache_duration; in every other case
\* the file is loaded and, when it holds a History, the entry is replaced by
\* that History stamped with the current time and the file's current
\* modification time.
C7_SirveSoloSiValido ==
    \A p \in Rutas :
        LET f == files[p]
            r == ReadThrough(p)
        IN  /\ r.hit => Sirve(cache, f, now)
            /\ (~Sirve(cache, f, now) /\ f.exists
                /\ JsonLoad(f.content).kind = "list")
               => /\ ~r.hit
                  /\ r.ret = JsonLoad(f.content)
                  /\ r.cache = [cache |-> JsonLoad(f.content), timestamp |-> now,
                                file_mtime |-> f.mtime]

\* C8 (as claimed): cargar_json never raises; for an absent file it returns an
\* empty History; for a file that is not valid JSON (a zero-length file
\* included) it returns an empty History, prints the error and leaves the
\* cache entry as it was.
C8_CargaSinExcepcion ==
    \A p \in Rutas, uc \in BOOLEAN :
        LET f == files[p]
            r == cargar_json(cache, f, now, None, uc, FALSE)
        IN  /\ ~r.raised
            /\ ~f.exists => r.ret = EmptyList
            /\ (f.exists /\ JsonLoad(f.content) = JSONDecodeError)
               => (r.ret = EmptyList /\ r.msg /\ r.cache = cache)

\* The root value of the file's JSON is not an array.
RaizNoArray(f) ==
    f.exists /\ JsonLoad(f.content).kind \notin {"list", "JSONDecodeError"}

\* C9 (as claimed): loading a file whose JSON root is not an array returns an
\* empty History and reports it; the non-array value is never returned and
\* never stored as the cache entry.
C9_RaizNoArrayVacia ==
    /\ cache.cache.kind \in {"None", "list"}
    /\ \A p \in Rutas, uc \in BOOLEAN :
        LET r == cargar_json(cache, files[p], now, None, uc, FALSE)
        IN  (RaizNoArray(files[p]) /\ ~r.hit) => (r.ret = EmptyList /\ r.msg)

\* A load of the history file, cached or not, returns an empty History.
CargaVacia(c, f) ==
    \A uc \in BOOLEAN : cargar_json(c, f, now, None, uc, FALSE).ret = EmptyList

C6_CopiaDefensiva ==
    ReadThrough(ARCHIVO_JSON).hit =>
        ReadThrough(ARCHIVO_JSON).ret = EnDisco(files[ARCHIVO_JSON])

\* A thread is inside the critical section of get, set or invalidar.
EnSeccion(t) ==
    hilos[t].pc \in {"get", "get_hit", "get_miss",
                     "set_cache", "set_timestamp", "set_mtime", "set_sale",
                     "inv_cache", "inv_timestamp", "inv_mtime", "inv_sale"}

\* A write is under way: its file step is done and it has not returned.
Escribiendo(t) ==
    hilos[t].pc \in {"unlink", "inv_entra", "inv_cache", "inv_timestamp",
                     "inv_mtime", "inv_sale"}

\* C4 (as claimed): with threads loading, appending and clearing at the same
\* time, once every write has returned, a readThrough that starts (and finds
\* the lock free) returns the History that is on disk: no reader that read
\* the file before a write leaves its snapshot as a valid entry after it.
C4_LecturaReflejaEscritura ==
    (lock = 0 /\ \A t \in Hilos : ~Escribiendo(t)) =>
        ReadThrough(ARCHIVO_JSON).ret = EnDisco(files[ARCHIVO_JSON])

\* At most one thread is inside get, set or invalidar.
ExclusionMutua == Cardinality({t \in Hilos : EnSeccion(t)}) <= 1

\* The entry a thread finds in get has its snapshot and its timestamp both
\* set or both unset.
EntradaEntera ==
    \A t \in Hilos : hilos[t].pc = "get" =>
        ((cache.cache = None) <=> (cache.timestamp = NoneT))

\* The entry a thread finds in get records the modification time the file
\* had when the snapshot was read.
MismaCaptura ==
    \A t \in Hilos : (hilos[t].pc = "get" /\ cache.cache # None) =>
        cache.file_mtime = captura

\* C5 (as claimed): get, set and invalidar exclude each other, no caller
\* finds an entry with only one of snapshot and timestamp set, and none finds
\* a snapshot with the modification time of another capture.
C5_SeccionCritica == ExclusionMutua /\ EntradaEntera /\ MismaCaptura

\* a is a prefix of b.
EsPrefijo(a, b) == Len(a) <= Len(b) /\ SubSeq(b, 1, Len(a)) = a

\* The persisted History of a file: what a cache-bypassing load returns.
Historia(f) == EnDisco(f).items

\* C11 (as claimed): in every state of the store and of the cache, for every
\* list of N >= 1 records, when guardar_json_batch returns success the
\* History on disk is the History that was on disk before the call followed
\* by the N records in their order.
C11_BatchExtiende ==
    \A p \in Rutas, ds \in Lotes :
        LET r == guardar_json_batch(cache, files[p], now, ds, "none") IN
        (Len(ds) >= 1 /\ EnDisco(files[p]).kind = "list" /\ r.ok) =>
            EnDisco(r.file) = PyList(Historia(files[p]) \o ds)

\* The files a writer may leave from the present state, whatever it is given
\* and whatever fails.
TrasEscribir(p) ==
    {guardar_json(cache, files[p], now, d, uc, io).file :
        d \in Datos, uc \in BOOLEAN, io \in Fallos}
    \cup {guardar_json_append(cache, files[p], now, d, io).file :
            d \in Datos, io \in Fallos}
    \cup {guardar_json_batch(cache, files[p], now, ds, io).file :
            ds \in Lotes, io \in Fallos}

\* C12 (as claimed): a save, an append or a batch, successful or not, leaves
\* a persisted History of which the History persisted before is a prefix.
C12_SoloAgrega ==
    \A p \in Rutas : \A g \in TrasEscribir(p) :
        EnDisco(files[p]).kind = "list" =>
            EsPrefijo(Historia(files[p]), Historia(g))

\* The I/O failure io happens in a load of f: the path cannot be examined, or
\* the file is opened and cannot be read.
FallaCarga(c, f, t, uc, io) ==
    io = "stat" \/ (io = "read" /\ cargar_json(c, f, t, None, uc, TRUE).leido)

\* A writer's result is a reported failure and no exception.
FalloInformado(r) == ~r.raised /\ ~r.ok /\ r.msg

\* C13 (as claimed): no exception leaves a store operation; an I/O failure
\* during a load gives an empty History and a message, during a writer or
\* the clear gives False and a message.
C13_SinExcepciones ==
    \A p \in Rutas, uc \in BOOLEAN, io \in {"stat", "read", "write"} :
        LET f == files[p]
            l == CargarCon(cache, f, now, None, uc, io)
        IN  /\ ~l.raised
            /\ (io # "write" /\ FallaCarga(cache, f, now, uc, io)) =>
                  (l.ret = EmptyList /\ l.msg)
            /\ (io = "write" \/ FallaCarga(cache, f, now, uc, io)) =>
                  \A d \in Datos :
                      FalloInformado(guardar_json(cache, f, now, d, uc, io))
            /\ (io = "write" \/ FallaCarga(cache, f, now, TRUE, io)) =>
                  \A ds \in Lotes :
                      FalloInformado(guardar_json_batch(cache, f, now, ds, io))
            /\ io # "read" =>
                  \A d \in Datos :
                      FalloInformado(guardar_json_append(cache, f, now, d, io))
            /\ (io = "stat" \/ (io = "write" /\ files[ARCHIVO_JSON].exists)) =>
                  FalloInformado(limpiar_historial(cache, files[ARCHIVO_JSON], io))

\* C14 (as claimed): once a save, an append or a batch has returned failure,
\* a readThrough of the path returns what a cache-bypassing load returns.
C14_FalloSinRastro ==
    (last.op \in {"guardar", "append", "batch"} /\ ~last.ok) =>
        ReadThrough(last.ruta).ret = EnDisco(files[last.ruta])

\* The record d is in the list h.
Contiene(h, d) == \E i \in 1..Len(h) : h[i] = d

\* C15 (as claimed): when two threads have each called a writer on the path
\* and both have returned True, the file is a well-formed array that holds
\* the record of each call.
C15_EscritoresSeguros ==
    (\A t \in Hilos : hilos[t].pc = "fin") =>
        /\ JsonLoad(files[ARCHIVO_JSON].content).kind = "list"
        /\ \A t \in Hilos : Contiene(Historia(files[ARCHIVO_JSON]), Registro(t))

\* The positions of the records of h whose perimetro is a number.
Contribuyen(h) == {i \in 1..Len(h) : h[i].perimetro.tipo = "num"}
RECURSIVE SumaDe(_, _)
SumaDe(h, I) ==
    IF I = {} THEN 0
    ELSE LET i == CHOOSE x \in I : TRUE IN h[i].perimetro.v + SumaDe(h, I \ {i})

\* C16: for every History the statistics mostrar_estadisticas_resumidas
\* shows have total = number of records, and average, maximum and minimum
\* taken over exactly the records whose perimetro is a number; they are 0
\* when no record has one.
C16_SoloNumeros ==
    (res.op = "mostrar" /\ res.mostrado) =>
        LET h == res.h
            I == Contribuyen(h)
            st == res.stats
        IN /\ st.total_calculos = Len(h)
           /\ IF I = {}
              THEN /\ st.perimetro_promedio.num = 0
                   /\ st.perimetro_maximo = 0
                   /\ st.perimetro_minimo = 0
              ELSE /\ st.perimetro_promedio.num * Cardinality(I)
                          = SumaDe(h, I) * st.perimetro_promedio.den
                   /\ \E i \in I : st.perimetro_maximo = h[i].perimetro.v
                   /\ \A i \in I : h[i].perimetro.v <= st.perimetro_maximo
                   /\ \E i \in I : st.perimetro_minimo = h[i].perimetro.v
                   /\ \A i \in I : st.perimetro_minimo <= h[i].perimetro.v

\* The positions of the records of h that have a figura, and how many of
\* them have the figura of the record at position i.
ConFigura(h) == {i \in 1..Len(h) : h[i].figura.tipo # "falta"}
Apariciones(h, i) == Cardinality({j \in ConFigura(h) : h[j].figura = h[i].figura})

\* C17: for every History the figure mostrar_estadisticas_resumidas shows is
\* the figura with the most occurrences among the records that have a figura,
\* numeric perimetro or not, the first in History order among those tied, and
\* 'ninguna' exactly when no record has a figura; the text shown is its title
\* form.
C17_FiguraMasFrecuente ==
    (res.op = "mostrar" /\ res.mostrado) =>
        LET h == res.h
            fig == res.stats.figura_mas_calculada
        IN /\ (fig = NINGUNA) <=> (ConFigura(h) = {})
           /\ ConFigura(h) # {} =>
                  \E i \in ConFigura(h) :
                      /\ h[i].figura = fig
                      /\ \A j \in ConFigura(h) : Apariciones(h, j) <= Apariciones(h, i)
                      /\ \A j \in ConFigura(h) :
                             j < i => Apariciones(h, j) < Apariciones(h, i)
           /\ res.texto = title(fig.s)

\* A History was summarised in which two figures tie and the one shown comes
\* first, in a record whose perimetro is not a number.
C17_Witness ==
    /\ res.op = "mostrar" /\ res.mostrado
    /\ \E i, j \in ConFigura(res.h) :
           /\ i < j
           /\ res.h[i].figura = res.stats.figura_mas_calculada
           /\ res.h[j].figura # res.h[i].figura
           /\ Apariciones(res.h, i) = Apariciones(res.h, j)
           /\ ~EsIntFloat(res.h[i].perimetro)
           /\ EsIntFloat(res.h[j].perimetro)

\* C18: when mostrar_estadisticas_resumidas is called twice with the same
\* non-empty History, the second call is a hit on the memo of
\* calcular_estadisticas_cached and computes nothing again.
C18_SegundaLlamadaEsHit ==
    (res.op = "mostrar" /\ res.repetida /\ res.h # <<>>) =>
        (res.hit /\ ~res.sinCache)

Coinciden(h, n) ==
    {i \in 1..Len(h) : /\ h[i].figura.tipo = "str"
                       /\ lower(h[i].figura.s) = strip(lower(n))}
\* sel is h restricted to the positions in I, in the order of h.
EsSeleccion(sel, h, I) ==
    /\ Len(sel) = Cardinality(I)
    /\ \A i \in I : sel[Cardinality({j \in I : j <= i})] = h[i]

\* C20: for every History that is a list and every name, buscar_por_figura
\* selects exactly the records whose figura equals the name after lower-casing
\* both and trimming the white space around the name, in History order.
C20_SeleccionExacta ==
    res.op = "buscar" => EsSeleccion(res.sel, res.h, Coinciden(res.h, res.nombre))

\* The entries of h that are dicts with a string figura.
ConFiguraStr(h) == {i \in 1..Len(h) : h[i].kind = "dict" /\ h[i].figura.tipo = "str"}

\* C21: buscar_por_figura never fails: it ends with a selection, empty when
\* nothing matches or when no entry is a dict with a string figura, or, when
\* the value loaded is not a list, with the 'not a list' outcome.
C21_BuscarNuncaFalla ==
    /\ res.op # "buscar_falla"
    /\ (res.op = "buscar" /\ ConFiguraStr(res.h) = {}) => res.sel = <<>>

\* C22: for all positive sides a, b, c the scalene formula raises the domain
\* error exactly when the triangle inequality fails, not (a+b>c and b+c>a and
\* a+c>b), and returns a+b+c otherwise.
C22_DesigualdadTriangular ==
    (calc.llamada.figura = "triangulo_escaleno" /\ calc.llamada.salida \in {"num", "ValueError"}) =>
        LET kw == calc.llamada.kwargs
            a == Arg(kw, "lado_1")
            b == Arg(kw, "lado_2")
            c == Arg(kw, "lado_3")
            cumple == a + b > c /\ b + c > a /\ a + c > b
        IN (a > 0 /\ b > 0 /\ c > 0) =>
               /\ (calc.llamada.salida = "ValueError") <=> ~cumple
               /\ cumple => calc.llamada.perimetro = 100 * (a + b + c)

\* C23: a request that is rejected (a figure that is not known, a parameter
\* that is not positive, a polygon of fewer than 3 sides, wrong or missing
\* names) leaves the files and the cache entry as they were.
C23_RechazoSinEscritura ==
    [][(calc' # calc /\ calc'.llamada.salida \in {"ValueError", "texto"})
           => (files' = files /\ cache' = cache)]_vars

\* A request was rejected while the History held a record and the cache
\* entry held a snapshot.
C23_Witness ==
    /\ calc.llamada.salida \in {"ValueError", "texto"}
    /\ last.op = "cargar"
    /\ Historia(files[ARCHIVO_JSON]) # <<>>
    /\ cache # CacheVacio

\* C24: every call of calcular_perimetro that returns a perimeter has
\* appended exactly one record to the persisted History, the record has
\* fecha, figura, perimetro and parametros, its perimetro is the value
\* returned and its parametros are the inputs.
C24_UnRegistroPorCalculo ==
    [][(calc' # calc /\ calc'.llamada.salida = "num") =>
           LET dato == registrar_resultado(calc'.llamada) IN
           /\ DOMAIN dato = {"fecha", "figura", "perimetro", "parametros"}
           /\ dato.perimetro = calc'.llamada.perimetro
           /\ dato.parametros = calc'.llamada.kwargs
           /\ Historia(files'[ARCHIVO_JSON])
                  = Append(Historia(files[ARCHIVO_JSON]), TextoDe(dato))]_vars

\* The compact form of a History with records: no white space between the
\* tokens.  The indented form: [] (what both forms write for no record), or
\* every record on lines of its own, four spaces in.
SinEspacios(text) == Len(text) > 2 /\ \A i \in 1..Len(text) : ~IsSpace(text[i])
Indentado(text) ==
    \/ text = <<"[", "]">>
    \/ /\ Len(text) > 4
       /\ text[1] = "[" /\ text[2] = NL
       /\ text[Len(text) - 1] = NL /\ text[Len(text)] = "]"
       /\ \A i \in 1..Len(text) :
              text[i] \in {"{", "}"} => (i > 5 /\ SubSeq(text, i - 5, i - 1) = <<NL>> \o Indent4)

\* The History a writer is about to write: what its load returns.
Base(p, uc) == cargar_json(cache, files[p], now, EmptyList, uc, FALSE).ret

\* C25: guardar_json and guardar_json_batch write the compact form exactly
\* when the History they write has more than 100 records and the 4-space
\* indented form otherwise, and a load of the file written returns that
\* History.
C25_FormatoPorUmbral ==
    \A p \in Rutas :
        /\ \A d \in Datos, uc \in BOOLEAN :
               LET r == guardar_json(cache, files[p], now, d, uc, "none")
                   H == Append(Base(p, uc).items, d)
               IN r.ok =>
                      /\ SinEspacios(r.file.content) <=> Len(H) > 100
                      /\ Len(H) <= 100 => Indentado(r.file.content)
                      /\ EnDisco(r.file) = PyList(H)
        /\ \A ds \in Lotes :
               LET r == guardar_json_batch(cache, files[p], now, ds, "none")
                   H == Base(p, TRUE).items \o ds
               IN r.ok =>
                      /\ SinEspacios(r.file.content) <=> Len(H) > 100
                      /\ Len(H) <= 100 => Indentado(r.file.content)
                      /\ EnDisco(r.file) = PyList(H)

\* A History of more than 100 records was written, after one of 100 or fewer.
C25_Witness ==
    /\ last.op \in {"guardar", "batch"} /\ last.ok
    /\ Len(Historia(files[ARCHIVO_JSON])) > UmbralCompacto
    /\ SinEspacios(files[ARCHIVO_JSON].content)

\* Two consecutive loads of p through the cache, the first now and the second
\* at t2, with nothing written in between: what each returns.
DosCargas(p, t2) ==
    LET r1 == cargar_json(cache, files[p], now, None, TRUE, FALSE)
        r2 == cargar_json(r1.cache, files[p], t2, None, TRUE, FALSE)
    IN <<r1, r2>>

\* The times of a second load that falls inside the freshness window of the
\* entry the first load left.
EnVentana(c) ==
    {t2 \in now..MaxTime : c.timestamp # NoneT /\ t2 - c.timestamp < cache_duration}

\* C26 (as claimed): for every file that holds an array, of any length, the
\* second of two consecutive loads through the cache, with the file unchanged
\* and less than cache_duration elapsed, is answered from the cache entry and
\* does not open the file.
C26_SegundaDesdeCache ==
    \A p \in Rutas :
        (files[p].exists /\ EnDisco(files[p]).kind = "list") =>
            \A t2 \in EnVentana(DosCargas(p, now)[1].cache) :
                LET r == DosCargas(p, t2)[2] IN r.hit /\ ~r.leido

\* The cache entry a load of p leaves when it starts from an empty entry:
\* everything in it was read from p.
TrasCargar(p) == cargar_json(CacheVacio, files[p], now, None, TRUE, FALSE).cache

\* The path is absent or holds an array.
EsHistoria(f) == ~f.exists \/ JsonLoad(f.content).kind = "list"

\* C27 (as claimed): for two distinct paths P and Q that hold a History,
\* after a load of P a load of Q through the cache returns what Q holds on
\* disk (an empty History when Q is absent), and a batch written to Q leaves
\* in Q what Q held followed by the batch, never records of P.
C27_UnaEntradaPorRuta ==
    \A P \in Rutas, Q \in Rutas :
        (P # Q /\ EsHistoria(files[P]) /\ EsHistoria(files[Q])) =>
            /\ cargar_json(TrasCargar(P), files[Q], now, None, TRUE, FALSE).ret
                   = EnDisco(files[Q])
            /\ \A ds \in Lotes :
                   LET r == guardar_json_batch(TrasCargar(P), files[Q], now, ds, "none")
                   IN r.ok => EnDisco(r.file) = PyList(Historia(files[Q]) \o ds)

\* The text has a closing array delimiter.
TieneCierre(text) == \E i \in 1..Len(text) : text[i] = "]"

\* C28 (as claimed): whatever the file holds, guardar_json_append returns
\* success only when the text it leaves parses as an array whose last element
\* is the appended record; when the text it finds has no ']' it returns
\* failure and leaves the file as it was.
C28_AppendSoloSobreArray ==
    \A p \in Rutas, d \in Datos :
        LET f == files[p]
            r == guardar_json_append(cache, f, now, d, "none")
            h == EnDisco(r.file)
        IN  /\ r.ok => (h.kind = "list" /\ h.items # <<>> /\ h.items[Len(h.items)] = d)
            /\ (f.exists /\ f.content # <<>> /\ ~TieneCierre(f.content))
                   => (~r.ok /\ r.file = f)

\* C29 (as claimed): for every History, calcular_estadisticas_cached applied
\* to datos_a_tuple of it returns the five statistics that
\* calcular_estadisticas_sin_cache returns for it.
C29_MemoIgualSinMemo ==
    LET c == calcular_estadisticas_cached(memoStats, datos_a_tuple(entrada)) IN
    /\ ~c.raised
    /\ c.stats = calcular_estadisticas_sin_cache(entrada)

\* ------------------------------------------------------------ menu: steps
\* FIGURAS_CONFIG: for options 1 to 9, the figure and the names of the
\* parameters procesar_figura asks for.
FIGURAS_CONFIG ==
    << [nombre |-> "cuadrado", params |-> <<"lado">>],
       [nombre |-> "rectangulo", params |-> <<"base", "altura">>],
       [nombre |-> "trapecio", params |-> <<"base_mayor", "base_menor", "lado">>],
       [nombre |-> "circulo", params |-> <<"radio">>],
       [nombre |-> "poligono_regular", params |-> <<"num_lados", "lado">>],
       [nombre |-> "triangulo_equilatero", params |-> <<"lado">>],
       [nombre |-> "triangulo_isosceles", params |-> <<"lados_iguales", "lado">>],
       [nombre |-> "triangulo_escaleno", params |-> <<"lado_1", "lado_2", "lado_3">>],
       [nombre |-> "triangulo_rectangulo", params |-> <<"cateto_1", "cateto_2">>] >>

\* pedir_float and pedir_int return only numbers greater than zero.  The
\* number of sides gets a value the polygon's formula refuses.
ValoresMenu(param) == IF param = "num_lados" THEN {1, 3} ELSE {2}
ParametrosMenu(o) ==
    LET ps == FIGURAS_CONFIG[o].params IN
    {[i \in 1..Len(ps) |-> <<ps[i], v[i]>>] :
        v \in {w \in [1..Len(ps) -> 1..3] : \A i \in 1..Len(ps) : w[i] \in ValoresMenu(ps[i])}}

\* Prompt.ask with a default: an empty answer gives the default.
PromptAsk(respuesta, default) == IF respuesta = "" THEN default ELSE respuesta
Respuestas == {"s", "n", "S", "N", ""}

\* A confirmation that takes every answer but n for a yes.
ConfirmaSalvoN(confirmacion) == confirmacion # "n"
\* `if confirmacion.lower() == 's'`
Confirma(confirmacion) == LowerCh(confirmacion) = "s"

\* input() at the pause: ENTER or Ctrl-C.
Teclas == {"enter", "ctrl_c"}
Pausa(tecla) == IF tecla = "ctrl_c" THEN "KeyboardInterrupt" ELSE "none"

\* The except clauses of menu(): KeyboardInterrupt breaks the loop, any
\* Exception prints a panel and the loop goes on.
Tras(opcion, confirmacion, exc) ==
    Vuelta(IF exc = "KeyboardInterrupt" THEN "fin" ELSE "menu", opcion, confirmacion, exc)

\* Options 1 to 9: procesar_figura, which catches what calcular_perimetro
\* raises, then the pause.
OpcionFigura(o, kw, io, tecla) ==
    /\ menu.pc = "menu"
    /\ CalculaYRegistra(FIGURAS_CONFIG[o].nombre, kw, io)
    /\ menu' = Tras(o, "", Pausa(tecla))
    /\ UNCHANGED <<entrada, res, memoStats, memoFigura, uso, llamadas, now, hilosVars>>

\* Options 10, 11 and 12: mostrar_json, buscar_por_figura and
\* mostrar_ultimos_calculos load the History and print.  falla: a record makes
\* buscar_por_figura raise (a figura that is no string).
OpcionMostrar(o, io, falla, tecla) ==
    LET r == CargarCon(cache, files[ARCHIVO_JSON], now, None, TRUE, io) IN
    /\ menu.pc = "menu"
    /\ Lectura(ARCHIVO_JSON, TRUE, io)
    /\ menu' = IF r.raised THEN Tras(o, "", "OSError")
               ELSE IF falla THEN Tras(o, "", "AttributeError")
               ELSE Tras(o, "", Pausa(tecla))
    /\ UNCHANGED <<entrada, res, memoStats, memoFigura, uso, llamadas, calc, files, now,
                   origen, held, hilosVars>>

\* Option 13: the confirmation, limpiar_historial when it is a yes, the pause.
OpcionLimpiar(respuesta, io, tecla) ==
    LET confirmacion == PromptAsk(respuesta, "n") IN
    /\ menu.pc = "menu"
    /\ IF Confirma(confirmacion)
       THEN Efecto("limpiar", ARCHIVO_JSON, TRUE,
                   limpiar_historial(cache, files[ARCHIVO_JSON], io), TRUE)
       ELSE UNCHANGED <<files, cache, last, origen, held>>
    /\ menu' = Tras(13, confirmacion, Pausa(tecla))
    /\ UNCHANGED <<entrada, res, memoStats, memoFigura, uso, llamadas, calc, now, hilosVars>>

\* Option 14: the farewell and break.
OpcionSalir ==
    /\ menu.pc = "menu"
    /\ menu' = Vuelta("fin", 14, "", "none")
    /\ UNCHANGED <<entrada, res, memoStats, memoFigura, uso, llamadas, calc, files, cache, now,
                   secVars, hilosVars>>

\* Ctrl-C at a prompt, before the option did anything: at the option prompt
\* (0), at a parameter of a figure, at the figure to search, at the
\* confirmation.
PromptsDe == {0, 1, 11, 13}
Interrumpe(o) ==
    /\ menu.pc = "menu"
    /\ menu' = Tras(o, "", "KeyboardInterrupt")
    /\ UNCHANGED <<entrada, res, memoStats, memoFigura, uso, llamadas, calc, files, cache, now,
                   secVars, hilosVars>>

NextMenu ==
    \/ \E o \in 1..9, io \in {"none", "write"}, tecla \in Teclas :
           \E kw \in ParametrosMenu(o) : OpcionFigura(o, kw, io, tecla)
    \/ \E o \in {10, 11, 12}, io \in {"none", "stat"}, tecla \in Teclas :
           \E falla \in {FALSE, o = 11} : OpcionMostrar(o, io, falla, tecla)
    \/ \E respuesta \in Respuestas, io \in {"none", "write"}, tecla \in Teclas :
           OpcionLimpiar(respuesta, io, tecla)
    \/ OpcionSalir
    \/ \E o \in PromptsDe : Interrumpe(o)

SpecMenu == Init /\ [][NextMenu]_vars

\* C30: in the menu loop the history file is deleted only by option 13
\* answered s or S; in every other iteration (another option, the answer n or
\* N or the default) the file stays and the History keeps its records; the
\* loop ends only on option 14 or on KeyboardInterrupt, and an iteration that
\* met any other exception is followed by the menu.
C30_MenuSoloBorraConfirmado ==
    [][LET A == ARCHIVO_JSON
           borra == menu'.opcion = 13 /\ menu'.confirmacion \in {"s", "S"}
       IN  /\ (files[A].exists /\ ~files'[A].exists) => borra
           /\ (~borra /\ EnDisco(files[A]).kind = "list")
                  => EsPrefijo(Historia(files[A]), Historia(files'[A]))
           /\ (menu.pc = "menu" /\ menu'.pc = "fin")
                  => (menu'.opcion = 14 \/ menu'.exc = "KeyboardInterrupt")
           /\ (menu.pc = "menu" /\ menu'.exc \notin {"none", "KeyboardInterrupt"})
                  => menu'.pc = "menu"]_vars

\* Option 13 answered S has deleted a history file, and the loop goes on.
C30_Witness ==
    /\ menu.pc = "menu" /\ menu.opcion = 13 /\ menu.confirmacion = "S"
    /\ last.op = "limpiar" /\ last.ok /\ last.valido
    /\ ~files[ARCHIVO_JSON].exists
====
